---- MODULE Spec2Model ----
(***************************************************************************)
(* Airport ride pooling: the matching engine (processRideRequest,          *)
(* cancelRide), the RidePool document methods, the Redis lock and the      *)
(* route insertion of the distance calculator.                             *)
(*                                                                         *)
(* Locations are kilometre marks along one road, so calculateDistance is   *)
(* the absolute difference of two marks.  A detour fraction is kept as an  *)
(* exact fraction num/den; detourTolerance is kept in percent.  Time is    *)
(* counted in ticks of half the lock timeout.                              *)
(***************************************************************************)
EXTENDS Integers, Sequences, FiniteSets, TLC

\* ------------------------------------------------------------------ bounds
MaxOps == 3            \* operations (ride requests and cancellations) in one run
MaxUsers == 2          \* distinct users
SharedOps == 2         \* operations run on a pool that two riders share already

\* ------------------------------------------------------- program constants
MAX_POOL_SIZE == 4
MAX_LUGGAGE_PER_CAB == 6
MATCHING_RADIUS_KM == 5
LOCK_TIMEOUT_MS == 2   \* in ticks

\* ------------------------------------------------------------ input sets
Ops == 1..MaxOps
Users == 1..MaxUsers
UnknownPoolId == 0                   \* an id no pool ever has
\* the request bodies a client sends: two passengers without luggage on a
\* short trip, one passenger with three bags on a long trip
RequestInputs ==
  {[pickupLocation |-> 0, dropoffLocation |-> 4, passengers |-> 2, luggage |-> 0,
    detourTolerance |-> 100],
   [pickupLocation |-> 0, dropoffLocation |-> 12, passengers |-> 1, luggage |-> 3,
    detourTolerance |-> 30]}

NoUser == 0
\* the hours new Date().getHours() shows when a price is calculated: a normal
\* hour and an hour of the evening rush
ClockHours == {12, 18}
\* the value of a field the request body does not carry
Undefined == -1
\* req.user.preferences of a user who never changed them
Preferences(userId) == [detourTolerance |-> 30]

\* ------------------------------------------------------ distanceCalculator
calculateDistance(point1, point2) ==
  IF point1 >= point2 THEN point1 - point2 ELSE point2 - point1

RECURSIVE calculateRouteDistance(_)
calculateRouteDistance(stops) ==
  IF Len(stops) < 2 THEN 0
  ELSE calculateDistance(stops[1].location, stops[2].location)
       + calculateRouteDistance(Tail(stops))

isWithinRadius(point1, point2, radiusKm) ==
  calculateDistance(point1, point2) <= radiusKm

\* Array.prototype.splice(pos, 0, item) with pos counted from 0
Splice(arr, pos, item) ==
  SubSeq(arr, 1, pos) \o <<item>> \o SubSeq(arr, pos + 1, Len(arr))

\* newRoute.forEach((stop, idx) => { stop.sequence = idx })
Resequence(stops) ==
  [k \in 1..Len(stops) |-> [stops[k] EXCEPT !.sequence = k - 1]]

NewStop(type, location, sequence) ==
  [type |-> type, location |-> location, passengerId |-> NoUser, sequence |-> sequence]

\* the insertion with the pickup spliced in behind the dropoff
InsertRoute_PickupLast(originalRoute, newPickup, newDropoff, pickupPos, dropoffPos) ==
  Resequence(Splice(Splice(originalRoute, dropoffPos, NewStop("dropoff", newDropoff, dropoffPos)),
                    dropoffPos + 1, NewStop("pickup", newPickup, pickupPos)))

InsertRoute(originalRoute, newPickup, newDropoff, pickupPos, dropoffPos) ==
  Resequence(Splice(Splice(originalRoute, dropoffPos, NewStop("dropoff", newDropoff, dropoffPos)),
                    pickupPos, NewStop("pickup", newPickup, pickupPos)))

\* the two nested for loops of calculateDetour, one iteration per call;
\* best.found = FALSE stands for minDetour = Infinity, bestRoute = null, and
\* best.pickupPos, best.dropoffPos are the positions bestRoute was built with
RECURSIVE DetourLoop(_, _, _, _, _, _, _)
DetourLoop(originalRoute, originalDistance, newPickup, newDropoff, pickupPos, dropoffPos, best) ==
  IF pickupPos > Len(originalRoute) THEN best
  ELSE LET newRoute == InsertRoute(originalRoute, newPickup, newDropoff, pickupPos, dropoffPos)
           newDistance == calculateRouteDistance(newRoute)
           \* detour = (newDistance - originalDistance) / originalDistance is
           \* Infinity or NaN when originalDistance = 0, and then never < minDetour
           less == /\ originalDistance > 0
                   /\ \/ ~best.found
                      \/ newDistance - originalDistance < best.num
           nbest == IF less
                    THEN [found |-> TRUE, num |-> newDistance - originalDistance,
                          den |-> originalDistance, bestRoute |-> newRoute,
                          newDistance |-> newDistance,
                          pickupPos |-> pickupPos, dropoffPos |-> dropoffPos]
                    ELSE best
       IN IF dropoffPos < Len(originalRoute)
          THEN DetourLoop(originalRoute, originalDistance, newPickup, newDropoff,
                          pickupPos, dropoffPos + 1, nbest)
          ELSE DetourLoop(originalRoute, originalDistance, newPickup, newDropoff,
                          pickupPos + 1, pickupPos + 1, nbest)

NoDetour ==
  [found |-> FALSE, num |-> 0, den |-> 1, bestRoute |-> <<>>, newDistance |-> 0,
   pickupPos |-> 0, dropoffPos |-> 0]

\* [...originalRoute] copies the array, not the stop objects: every iteration's
\* forEach writes the sequence of the stops of originalRoute, and the last
\* iteration (both new stops at the end) leaves each with its own index.  The
\* two new stops are objects of their iteration and keep its indices.
SharedStops(bestRoute, pickupPos, dropoffPos) ==
  [idx \in 1..Len(bestRoute) |->
     IF idx = pickupPos + 1 \/ idx = dropoffPos + 2
     THEN bestRoute[idx]
     ELSE [bestRoute[idx] EXCEPT
             !.sequence = idx - 1 - (IF idx > pickupPos + 1 THEN 1 ELSE 0)
                                  - (IF idx > dropoffPos + 2 THEN 1 ELSE 0)]]

\* calculateDetour without the branch for an empty route
calculateDetour_NoEmptyCase(originalRoute, newPickup, newDropoff) ==
  LET best == DetourLoop(originalRoute, calculateRouteDistance(originalRoute),
                         newPickup, newDropoff, 0, 0, NoDetour)
  IN [best EXCEPT !.bestRoute = SharedStops(@, best.pickupPos, best.dropoffPos)]

calculateDetour(originalRoute, newPickup, newDropoff) ==
  IF Len(originalRoute) = 0
  THEN [found |-> TRUE, num |-> 0, den |-> 1,
        bestRoute |-> <<NewStop("pickup", newPickup, 0), NewStop("dropoff", newDropoff, 1)>>,
        newDistance |-> calculateDistance(newPickup, newDropoff),
        pickupPos |-> 0, dropoffPos |-> 0]
  ELSE LET best == DetourLoop(originalRoute, calculateRouteDistance(originalRoute),
                              newPickup, newDropoff, 0, 0, NoDetour)
       IN [best EXCEPT !.bestRoute = SharedStops(@, best.pickupPos, best.dropoffPos)]

\* the whole distances up to 200 km for which distanceKm / 40 * 60 in double
\* arithmetic lies above the exact product, itself a whole number:
\* 166 / 40 * 60 evaluates to 249.00000000000003
RoundedUpDistances == {166}

\* avgSpeedKmh = 40: Math.ceil(distanceKm / 40 * 60) minutes in double
\* arithmetic, for whole distances up to 200 km
estimateDuration(distanceKm) ==
  (distanceKm * 60 + 39) \div 40 + (IF distanceKm \in RoundedUpDistances THEN 1 ELSE 0)

\* ------------------------------------------------------------ PricingEngine
\* Money is counted in cents, multipliers in tenths, discount factors in
\* percent; a pooling discount is the exact fraction num/den.
BASE_RATE_PER_KM == 200
BASE_RATE_PER_MIN == 50
MINIMUM_FARE == 500
AIRPORT_FEE == 300

\* the price without the minimum fare
calculateBasePrice_NoMinimum(distanceKm, durationMin) ==
  distanceKm * BASE_RATE_PER_KM + durationMin * BASE_RATE_PER_MIN + AIRPORT_FEE

\* the price without the airport fee
calculateBasePrice_NoAirportFee(distanceKm, durationMin) ==
  LET basePrice == distanceKm * BASE_RATE_PER_KM + durationMin * BASE_RATE_PER_MIN
  IN IF basePrice >= MINIMUM_FARE THEN basePrice ELSE MINIMUM_FARE

calculateBasePrice(distanceKm, durationMin) ==
  LET basePrice == distanceKm * BASE_RATE_PER_KM + durationMin * BASE_RATE_PER_MIN
                   + AIRPORT_FEE
  IN IF basePrice >= MINIMUM_FARE THEN basePrice ELSE MINIMUM_FARE

\* the ratio taken over availableCabs + 1 instead of Math.max(availableCabs, 1)
calculateDemandMultiplier_PlusOne(activeRequests, availableCabs) ==
  LET cabs == availableCabs + 1
  IN IF 2 * activeRequests < cabs THEN 10
     ELSE IF activeRequests < cabs THEN 12
     ELSE IF 2 * activeRequests < 3 * cabs THEN 15
     ELSE IF activeRequests < 2 * cabs THEN 20
     ELSE 25

\* ratio = activeRequests / Math.max(availableCabs, 1) against the bands, in
\* tenths
calculateDemandMultiplier(activeRequests, availableCabs) ==
  LET cabs == IF availableCabs >= 1 THEN availableCabs ELSE 1
  IN IF 2 * activeRequests < cabs THEN 10
     ELSE IF activeRequests < cabs THEN 12
     ELSE IF 2 * activeRequests < 3 * cabs THEN 15
     ELSE IF activeRequests < 2 * cabs THEN 20
     ELSE 25

getTimeMultiplier(hour) ==
  IF hour >= 6 /\ hour < 9 THEN 13
  ELSE IF hour >= 17 /\ hour < 20 THEN 14
  ELSE IF hour >= 0 /\ hour < 6 THEN 12
  ELSE 10

\* the discount without the minimum of 10%
calculatePoolingDiscount_NoFloor(passengersCount, num, den) ==
  LET baseDiscount == IF (passengersCount - 1) * 15 < 45
                      THEN (passengersCount - 1) * 15 ELSE 45
      reduced == baseDiscount * den - 30 * num
  IN [num |-> IF reduced >= 0 THEN reduced ELSE 0, den |-> 100 * den]

\* max(min((passengersCount - 1) * 0.15, 0.45) - detour * 0.3, 0.10) for the
\* detour num/den, as a fraction over 100 * den
calculatePoolingDiscount(passengersCount, num, den) ==
  LET baseDiscount == IF (passengersCount - 1) * 15 < 45
                      THEN (passengersCount - 1) * 15 ELSE 45
      reduced == baseDiscount * den - 30 * num
  IN [num |-> IF reduced >= 10 * den THEN reduced ELSE 10 * den, den |-> 100 * den]

getDistanceDiscount(distanceKm) ==
  IF distanceKm > 20 THEN 90
  ELSE IF distanceKm > 50 THEN 85
  ELSE 100

\* Math.round(num / den) for num >= 0, den > 0
Round(num, den) == (2 * num + den) \div (2 * den)

RECURSIVE GCD(_, _)
GCD(a, b) == IF b = 0 THEN a ELSE GCD(b, a % b)

\* the fraction num/den in lowest terms
Reduce(num, den) == [num |-> num \div GCD(num, den), den |-> den \div GCD(num, den)]

\* price *= factor on exact fractions
Times(price, factor) == Reduce(price.num * factor.num, price.den * factor.den)

\* the price in cents of a passenger joining pool, with the detour num/den,
\* when the clock shows hour; no demandData is passed
calculatePassengerPrice(rideRequest, pool, num, den, hour) ==
  LET directDistance == calculateDistance(rideRequest.pickupLocation,
                                          rideRequest.dropoffLocation)
      directDuration == estimateDuration(directDistance)
      price == calculateBasePrice(directDistance, directDuration)
      surgeFactor == pool.pricing.surgeFactor
      timeMultiplier == getTimeMultiplier(hour)
      currentPassengers == Len(pool.passengers) + 1
      poolingDiscount == calculatePoolingDiscount(currentPassengers, num, den)
      distanceDiscount == getDistanceDiscount(directDistance)
      surged == Times(Reduce(price, 1), Reduce(surgeFactor, 10))
      timed == Times(surged, Reduce(timeMultiplier, 10))
      pooled == Times(timed, Reduce(poolingDiscount.den - poolingDiscount.num,
                                    poolingDiscount.den))
      final == Times(pooled, Reduce(distanceDiscount, 100))
  IN Round(final.num, final.den)

RECURSIVE SumIndividualPrices(_)
SumIndividualPrices(passengers) ==
  IF passengers = <<>> THEN 0
  ELSE Head(passengers).individualPrice + SumIndividualPrices(Tail(passengers))

\* passengers are [passengerId, individualPrice]; the result is the list of
\* [passengerId, price]
ensureFairPricing(passengers, totalPoolPrice) ==
  LET totalIndividualPrice == SumIndividualPrices(passengers)
      adjustedTotal == IF totalPoolPrice > totalIndividualPrice
                       THEN Reduce(totalIndividualPrice * 85, 100)
                       ELSE Reduce(totalPoolPrice, 1)
  IN [i \in 1..Len(passengers) |->
        [passengerId |-> passengers[i].passengerId,
         price |-> Round(passengers[i].individualPrice * adjustedTotal.num,
                         totalIndividualPrice * adjustedTotal.den)]]

\* ------------------------------------------------------------ RidePool model
NoPool ==
  [_id |-> 0, status |-> "absent", passengers |-> <<>>,
   route |-> [stops |-> <<>>, totalDistance |-> 0, totalDuration |-> 0],
   vehicle |-> [capacity |-> 0, luggageCapacity |-> 0],
   currentOccupancy |-> [seats |-> 0, luggage |-> 0],
   pricing |-> [basePrice |-> 0, surgeFactor |-> 10, totalPrice |-> 0],
   version |-> 0, versionKey |-> 0]

\* canAccommodate without the luggage comparison
canAccommodate_SeatsOnly(pool, passengers, luggage) ==
  pool.currentOccupancy.seats + passengers <= pool.vehicle.capacity

canAccommodate(pool, passengers, luggage) ==
  /\ pool.currentOccupancy.seats + passengers <= pool.vehicle.capacity
  /\ pool.currentOccupancy.luggage + luggage <= pool.vehicle.luggageCapacity

addPassenger(pool, passengerData) ==
  [pool EXCEPT !.passengers = Append(@, passengerData),
               !.currentOccupancy.seats = @ + passengerData.passengerCount,
               !.currentOccupancy.luggage = @ + passengerData.luggageCount]

\* passengers.find(p => p.userId === userId): the first entry of the user, 0 if none
FindPassenger(passengers, userId) ==
  IF \E k \in 1..Len(passengers) : passengers[k].userId = userId
  THEN CHOOSE k \in 1..Len(passengers) :
         /\ passengers[k].userId = userId
         /\ \A j \in 1..(k - 1) : passengers[j].userId # userId
  ELSE 0

\* removePassenger returning true when the user has no entry
removePassenger_AlwaysRemoved(pool, userId) ==
  LET k == FindPassenger(pool.passengers, userId)
      NotUser(p) == p.userId # userId
  IN IF k # 0
     THEN [removed |-> TRUE,
           pool |-> [pool EXCEPT
                       !.currentOccupancy.seats = @ - pool.passengers[k].passengerCount,
                       !.currentOccupancy.luggage = @ - pool.passengers[k].luggageCount,
                       !.passengers = SelectSeq(pool.passengers, NotUser)]]
     ELSE [removed |-> TRUE, pool |-> pool]

\* the document after removePassenger; the method returns removed
removePassenger(pool, userId) ==
  LET k == FindPassenger(pool.passengers, userId)
      NotUser(p) == p.userId # userId
  IN IF k # 0
     THEN [removed |-> TRUE,
           pool |-> [pool EXCEPT
                       !.currentOccupancy.seats = @ - pool.passengers[k].passengerCount,
                       !.currentOccupancy.luggage = @ - pool.passengers[k].luggageCount,
                       !.passengers = SelectSeq(pool.passengers, NotUser)]]
     ELSE [removed |-> FALSE, pool |-> pool]

\* save without the version filter: the stored document is overwritten
save_Unversioned(stored, doc) ==
  [ok |-> TRUE, stored |-> [doc EXCEPT !.versionKey = stored.versionKey + 1]]

\* pre('save') and Model.prototype.save of a loaded document: increment() puts
\* the loaded __v (versionKey) in the update's filter and adds $inc __v; no
\* matching document is a VersionError.  The schema path `version` is not
\* touched by increment().
save(stored, doc) ==
  IF stored.versionKey = doc.versionKey
  THEN [ok |-> TRUE, stored |-> [doc EXCEPT !.versionKey = @ + 1]]
  ELSE [ok |-> FALSE, stored |-> stored]

\* ---------------------------------------------------------- MatchingEngine
FIND_LIMIT == 20

\* the filter of RidePool.find in findNearbyPools
Available(pool, requiredSeats, requiredLuggage) ==
  /\ pool.status \in {"forming", "matched"}
  /\ pool.currentOccupancy.seats + requiredSeats <= pool.vehicle.capacity
  /\ pool.currentOccupancy.luggage + requiredLuggage <= pool.vehicle.luggageCapacity

\* the stored pools with ids from from on as a sequence in insertion order
RECURSIVE StoredFrom(_, _)
StoredFrom(store, from) ==
  IF from \notin DOMAIN store THEN <<>>
  ELSE (IF store[from].status # "absent" THEN <<store[from]>> ELSE <<>>)
       \o StoredFrom(store, from + 1)

findNearbyPools(store, pickupLocation, requiredSeats, requiredLuggage) ==
  LET Match(pool) == Available(pool, requiredSeats, requiredLuggage)
      found == SelectSeq(StoredFrom(store, 1), Match)
      pools == SubSeq(found, 1, IF Len(found) < FIND_LIMIT THEN Len(found) ELSE FIND_LIMIT)
      Near(pool) ==
        /\ Len(pool.route.stops) # 0
        /\ \E k \in 1..Len(pool.route.stops) :
             isWithinRadius(pickupLocation, pool.route.stops[k].location, MATCHING_RADIUS_KM)
  IN SelectSeq(pools, Near)

NoMatch == [pool |-> NoPool, calculatedDetour |-> NoDetour, cost |-> 0]

\* the cost without the term of the occupied seats
CostNum_NoSeats(pool, detourResult) ==
  detourResult.num * 100 + (Len(pool.route.stops) * 10) * detourResult.den

\* cost = detourPercentage * 100 + stops.length * 10 + currentOccupancy.seats * 5,
\* as the numerator over the detour's denominator
CostNum(pool, detourResult) ==
  detourResult.num * 100
  + (Len(pool.route.stops) * 10 + pool.currentOccupancy.seats * 5) * detourResult.den

\* the for loop of findBestMatch; best.pool = NoPool stands for bestPool = null
RECURSIVE BestMatchLoop(_, _, _)
BestMatchLoop(rideRequest, pools, best) ==
  IF pools = <<>> THEN best
  ELSE LET pool == Head(pools)
           detourResult == calculateDetour(pool.route.stops, rideRequest.pickupLocation,
                                           rideRequest.dropoffLocation)
           \* detourPercentage > detourTolerance (Infinity when nothing was found)
           over == \/ ~detourResult.found
                   \/ detourResult.num * 100 > rideRequest.detourTolerance * detourResult.den
           costNum == CostNum(pool, detourResult)
           less == \/ best.pool = NoPool
                   \/ costNum * best.calculatedDetour.den < best.cost * detourResult.den
       IN IF ~over /\ less
          THEN BestMatchLoop(rideRequest, Tail(pools),
                 [pool |-> pool, calculatedDetour |-> detourResult, cost |-> costNum])
          ELSE BestMatchLoop(rideRequest, Tail(pools), best)

findBestMatch(rideRequest, pools) == BestMatchLoop(rideRequest, pools, NoMatch)

\* SET key lockValue PX timeout NX on the lock store; ok = FALSE is a null reply
NoLock == [token |-> 0, px |-> 0, age |-> 0]

\* SET without PX: the key never expires
acquireLock_NoPX(store, key, lockValue, timeout) ==
  IF store[key].token = 0
  THEN [ok |-> TRUE,
        store |-> [store EXCEPT ![key] = [token |-> lockValue, px |-> 0, age |-> 0]]]
  ELSE [ok |-> FALSE, store |-> store]

\* SET without NX: a stored lock is overwritten
acquireLock_NoNX(store, key, lockValue, timeout) ==
  [ok |-> TRUE,
   store |-> [store EXCEPT ![key] = [token |-> lockValue, px |-> timeout, age |-> 0]]]

acquireLock(store, key, lockValue, timeout) ==
  IF store[key].token = 0
  THEN [ok |-> TRUE,
        store |-> [store EXCEPT ![key] = [token |-> lockValue, px |-> timeout, age |-> 0]]]
  ELSE [ok |-> FALSE, store |-> store]

\* DEL without the comparison of the stored value
releaseLock_Unconditional(store, key, lockValue) ==
  [store EXCEPT ![key] = NoLock]

\* a release that never deletes
releaseLock_Skipped(store, key, lockValue) == store

\* the Lua script of releaseLock: delete the key only if it holds lockValue
releaseLock(store, key, lockValue) ==
  IF store[key].token = lockValue
  THEN [store EXCEPT ![key] = NoLock]
  ELSE store

\* a join that leaves the status as it was loaded
JoinDocument_NoPromotion(pool, poolData, rideRequest, hour) ==
  LET price == calculatePassengerPrice(rideRequest, pool, poolData.calculatedDetour.num,
                                       poolData.calculatedDetour.den, hour)
      passengerData == [userId |-> rideRequest.userId, requestId |-> rideRequest._id,
                        price |-> price,
                        passengerCount |-> rideRequest.passengers,
                        luggageCount |-> rideRequest.luggage]
      added == addPassenger(pool, passengerData)
      bestRoute == poolData.calculatedDetour.bestRoute
      stops == [idx \in 1..Len(bestRoute) |->
                  [bestRoute[idx] EXCEPT
                     !.passengerId = IF @ # NoUser THEN @ ELSE rideRequest.userId,
                     !.sequence = idx - 1]]
  IN [added EXCEPT
        !.route.stops = stops,
        !.route.totalDistance = poolData.calculatedDetour.newDistance,
        !.route.totalDuration = estimateDuration(poolData.calculatedDetour.newDistance)]

\* lines 418-463 of addToExistingPool: the loaded document as it is saved
JoinDocument(pool, poolData, rideRequest, hour) ==
  LET price == calculatePassengerPrice(rideRequest, pool, poolData.calculatedDetour.num,
                                       poolData.calculatedDetour.den, hour)
      passengerData == [userId |-> rideRequest.userId, requestId |-> rideRequest._id,
                        price |-> price,
                        passengerCount |-> rideRequest.passengers,
                        luggageCount |-> rideRequest.luggage]
      added == addPassenger(pool, passengerData)
      bestRoute == poolData.calculatedDetour.bestRoute
      stops == [idx \in 1..Len(bestRoute) |->
                  [bestRoute[idx] EXCEPT
                     !.passengerId = IF @ # NoUser THEN @ ELSE rideRequest.userId,
                     !.sequence = idx - 1]]
  IN [added EXCEPT
        !.route.stops = stops,
        !.route.totalDistance = poolData.calculatedDetour.newDistance,
        !.route.totalDuration = estimateDuration(poolData.calculatedDetour.newDistance),
        !.status = IF Len(added.passengers) >= 2 /\ @ = "forming" THEN "matched" ELSE @]

\* calculateBasePrice of the request's direct distance and estimated duration
BasePriceOf(rideRequest) ==
  LET directDistance == calculateDistance(rideRequest.pickupLocation,
                                          rideRequest.dropoffLocation)
  IN calculateBasePrice(directDistance, estimateDuration(directDistance))

\* a new pool stored with an empty occupancy
NewPoolDocument_NoOccupancy(id, rideRequest) ==
  [_id |-> id, status |-> "forming",
   passengers |-> <<[userId |-> rideRequest.userId, requestId |-> rideRequest._id,
                     price |-> BasePriceOf(rideRequest),
                     passengerCount |-> rideRequest.passengers,
                     luggageCount |-> rideRequest.luggage]>>,
   route |-> [stops |-> <<[type |-> "pickup", location |-> rideRequest.pickupLocation,
                           passengerId |-> rideRequest.userId, sequence |-> 0],
                          [type |-> "dropoff", location |-> rideRequest.dropoffLocation,
                           passengerId |-> rideRequest.userId, sequence |-> 1]>>,
              totalDistance |-> calculateDistance(rideRequest.pickupLocation,
                                                  rideRequest.dropoffLocation),
              totalDuration |-> estimateDuration(
                                  calculateDistance(rideRequest.pickupLocation,
                                                    rideRequest.dropoffLocation))],
   vehicle |-> [capacity |-> MAX_POOL_SIZE, luggageCapacity |-> MAX_LUGGAGE_PER_CAB],
   currentOccupancy |-> [seats |-> 0, luggage |-> 0],
   pricing |-> [basePrice |-> BasePriceOf(rideRequest), surgeFactor |-> 10,
                totalPrice |-> BasePriceOf(rideRequest)],
   version |-> 0, versionKey |-> 0]

\* the document createNewPool builds
NewPoolDocument(id, rideRequest) ==
  [_id |-> id, status |-> "forming",
   passengers |-> <<[userId |-> rideRequest.userId, requestId |-> rideRequest._id,
                     price |-> BasePriceOf(rideRequest),
                     passengerCount |-> rideRequest.passengers,
                     luggageCount |-> rideRequest.luggage]>>,
   route |-> [stops |-> <<[type |-> "pickup", location |-> rideRequest.pickupLocation,
                           passengerId |-> rideRequest.userId, sequence |-> 0],
                          [type |-> "dropoff", location |-> rideRequest.dropoffLocation,
                           passengerId |-> rideRequest.userId, sequence |-> 1]>>,
              totalDistance |-> calculateDistance(rideRequest.pickupLocation,
                                                  rideRequest.dropoffLocation),
              totalDuration |-> estimateDuration(
                                  calculateDistance(rideRequest.pickupLocation,
                                                    rideRequest.dropoffLocation))],
   vehicle |-> [capacity |-> MAX_POOL_SIZE, luggageCapacity |-> MAX_LUGGAGE_PER_CAB],
   currentOccupancy |-> [seats |-> rideRequest.passengers, luggage |-> rideRequest.luggage],
   pricing |-> [basePrice |-> BasePriceOf(rideRequest), surgeFactor |-> 10,
                totalPrice |-> BasePriceOf(rideRequest)],
   version |-> 0, versionKey |-> 0]

\* the cancellation without the recomputation of distance and duration
CancelDocument_RouteTotalsKept(pool, userId) ==
  IF Len(pool.passengers) = 0
  THEN [pool EXCEPT !.status = "cancelled"]
  ELSE LET NotUser(stop) == stop.passengerId # userId
           newStops == SelectSeq(pool.route.stops, NotUser)
       IN [pool EXCEPT !.route.stops = Resequence(newStops)]

\* lines 585-604 of cancelRide, applied to the document removePassenger left
CancelDocument(pool, userId) ==
  IF Len(pool.passengers) = 0
  THEN [pool EXCEPT !.status = "cancelled"]
  ELSE LET NotUser(stop) == stop.passengerId # userId
           newStops == SelectSeq(pool.route.stops, NotUser)
       IN [pool EXCEPT !.route.stops = Resequence(newStops),
                       !.route.totalDistance = calculateRouteDistance(newStops),
                       !.route.totalDuration =
                          estimateDuration(calculateRouteDistance(newStops))]

\* --------------------------------------------------------------------- state
VARIABLES
  pools,      \* the RidePool collection: pool id -> document, NoPool if none
  requests,   \* the RideRequest collection: request id -> document
  lock,       \* the Redis lock store: key -> [token, px, age]
  ops,        \* the operations in flight: their arguments, locals and position
  joined,     \* history: pool id -> requests whose join committed and that no
              \* committed cancel of their user has removed since
  call        \* the latest call of a function made on its own: its name, its
              \* arguments, whether it has returned and its return value

vars == <<pools, requests, lock, ops, joined, call>>

\* pool ids in the order the documents are inserted
PoolIds == DOMAIN pools
\* `pool:${id}` for every id a caller can name
LockKeys == DOMAIN lock

NoRequest ==
  [_id |-> 0, userId |-> NoUser, pickupLocation |-> 0, dropoffLocation |-> 0,
   passengers |-> 0, luggage |-> 0, detourTolerance |-> 0,
   status |-> "absent", matchedPoolId |-> 0]

\* detour is the returned detour fraction num/den, den = 0 when none is returned
NoResult ==
  [state |-> "none", poolId |-> 0, isNewPool |-> FALSE, estimatedPrice |-> 0,
   detour |-> [num |-> 0, den |-> 0], error |-> ""]

IdleOp ==
  [kind |-> "none", pc |-> "idle", userId |-> NoUser, poolId |-> 0,
   detourTolerance |-> Undefined, \* req.body.detourTolerance of createRideRequest
   matchedPool |-> NoMatch,      \* findBestMatch's result
   pool |-> NoPool,              \* the document findById returned
   newPool |-> NoPool,           \* the document createNewPool returned
   lockValue |-> 0,
   price |-> 0,                  \* addToExistingPool's result.price
   success |-> FALSE,            \* addToExistingPool's result.success
   error |-> "",                 \* its result.error, or the error cancelRide throws
   result |-> NoResult,          \* what the operation returned or threw
   \* history of the operation
   acquires |-> 0,               \* calls of acquireLock
   lockAge |-> 0,                \* ticks since its acquire, while it has not released
   loads |-> 0,                  \* calls of findById
   saved |-> "none",             \* its pool.save(): "committed" or "conflict"
   recheck |-> "none",           \* the capacity double-check: "passed" or "failed"
   released |-> "none",          \* its releaseLock: the key was "deleted" or "kept"
   removedRequests |-> {},       \* the requests of the entries its removePassenger dropped
   hour |-> -1]                  \* the clock hour of its committed price calculation

NoCall == [fn |-> "none", args |-> <<>>, returned |-> FALSE, result |-> <<>>]

\* an empty database with room for one pool per operation
Init ==
  /\ call = NoCall
  /\ pools = [p \in 1..MaxOps |-> NoPool]
  /\ requests = [r \in Ops |-> NoRequest]
  /\ lock = [k \in 0..MaxOps |-> NoLock]
  /\ ops = [i \in Ops |-> IdleOp]
  /\ joined = [p \in 1..MaxOps |-> {}]

\* user ids are handed out in order: a caller is a user seen before or the next one
Callers == {u \in Users : \A v \in 1..(u - 1) : \E j \in Ops : ops[j].userId = v}

\* the id of the next pool document
NextPoolId == Cardinality({p \in PoolIds : pools[p] # NoPool}) + 1

\* between the successful acquireLock and the end of releaseLock
InCritical(i) == ops[i].pc \in {"findById", "save", "updateRequest", "releaseLock"}

\* operations start in the order of their ids
CanStart(i) ==
  /\ ops[i].kind = "none"
  /\ IF i = 1 THEN TRUE ELSE ops[i - 1].kind # "none"

\* ------------------------------------------------------- processRideRequest
\* rideController.createRideRequest: the request is saved as pending and
\* handed to processRideRequest
createRideRequest(i, userId, body) ==
  /\ CanStart(i)
  /\ requests' = [requests EXCEPT ![i] =
       [_id |-> i, userId |-> userId, pickupLocation |-> body.pickupLocation,
        dropoffLocation |-> body.dropoffLocation, passengers |-> body.passengers,
        luggage |-> body.luggage,
        \* detourTolerance || req.user.preferences.detourTolerance
        detourTolerance |-> IF body.detourTolerance \notin {Undefined, 0}
                            THEN body.detourTolerance
                            ELSE Preferences(userId).detourTolerance,
        status |-> "pending", matchedPoolId |-> 0]]
  /\ ops' = [ops EXCEPT ![i] = [IdleOp EXCEPT !.kind = "request", !.userId = userId,
                                              !.detourTolerance = body.detourTolerance,
                                              !.pc = "findNearbyPools"]]
  /\ UNCHANGED <<call, pools, lock, joined>>

\* steps 1 and 2: the candidate read and findBestMatch on that snapshot
ProcessRideRequest_FindMatch(i) ==
  /\ ops[i].kind = "request" /\ ops[i].pc = "findNearbyPools"
  /\ LET rideRequest == requests[i]
         nearbyPools == findNearbyPools(pools, rideRequest.pickupLocation,
                                        rideRequest.passengers, rideRequest.luggage)
         matchedPool == IF Len(nearbyPools) > 0
                        THEN findBestMatch(rideRequest, nearbyPools)
                        ELSE NoMatch
     IN ops' = [ops EXCEPT
          ![i].matchedPool = matchedPool,
          ![i].poolId = matchedPool.pool._id,
          ![i].pc = IF matchedPool.pool # NoPool THEN "acquireLock" ELSE "createNewPool"]
  /\ UNCHANGED <<call, pools, requests, lock, joined>>

\* acquireLock of processRideRequest and of cancelRide: a null reply throws
\* before the try block is entered
AcquireLock(i) ==
  /\ ops[i].pc = "acquireLock"
  /\ LET reply == acquireLock(lock, ops[i].poolId, i, LOCK_TIMEOUT_MS)
     IN /\ lock' = reply.store
        /\ ops' = [ops EXCEPT
             ![i].acquires = @ + 1,
             ![i].lockValue = IF reply.ok THEN i ELSE @,
             ![i].pc = IF reply.ok THEN "findById" ELSE "done",
             ![i].result = IF reply.ok THEN @
                           ELSE [NoResult EXCEPT !.state = "thrown",
                                                 !.error = "Failed to acquire lock"]]
  /\ UNCHANGED <<call, pools, requests, joined>>

\* addToExistingPool up to the capacity double-check
AddToExistingPool_FindById(i) ==
  /\ ops[i].kind = "request" /\ ops[i].pc = "findById"
  /\ LET pool == pools[ops[i].poolId]
         rideRequest == requests[i]
         fits == canAccommodate(pool, rideRequest.passengers, rideRequest.luggage)
     IN ops' = [ops EXCEPT
          ![i].pool = pool,
          ![i].loads = @ + 1,
          ![i].recheck = IF pool = NoPool THEN @ ELSE IF fits THEN "passed" ELSE "failed",
          ![i].error = IF pool = NoPool THEN "Pool not found"
                       ELSE IF fits THEN @ ELSE "Pool is full",
          ![i].pc = IF pool # NoPool /\ fits THEN "save" ELSE "releaseLock"]
  /\ UNCHANGED <<call, pools, requests, lock, joined>>

\* pool.save() of addToExistingPool; a VersionError is caught and becomes
\* { success: false }
AddToExistingPool_Save(i, hour) ==
  /\ ops[i].kind = "request" /\ ops[i].pc = "save"
  /\ LET id == ops[i].poolId
         pool == JoinDocument(ops[i].pool, ops[i].matchedPool, requests[i], hour)
         saved == save(pools[id], pool)
     IN /\ pools' = [pools EXCEPT ![id] = saved.stored]
        /\ joined' = IF saved.ok THEN [joined EXCEPT ![id] = @ \cup {i}] ELSE joined
        /\ ops' = [ops EXCEPT
             ![i].price = IF saved.ok THEN pool.passengers[Len(pool.passengers)].price ELSE @,
             ![i].hour = IF saved.ok THEN hour ELSE @,
             ![i].saved = IF saved.ok THEN "committed" ELSE "conflict",
             ![i].error = IF saved.ok THEN @ ELSE "VersionError",
             ![i].pc = IF saved.ok THEN "updateRequest" ELSE "releaseLock"]
  /\ UNCHANGED <<call, requests, lock>>

\* addToExistingPool returning success without the request update
AddToExistingPool_UpdateRequest_Skipped(i) ==
  /\ ops[i].kind = "request" /\ ops[i].pc = "updateRequest"
  /\ ops' = [ops EXCEPT ![i].success = TRUE, ![i].pc = "releaseLock"]
  /\ UNCHANGED <<call, pools, requests, lock, joined>>

\* RideRequest.findByIdAndUpdate of addToExistingPool
AddToExistingPool_UpdateRequest(i) ==
  /\ ops[i].kind = "request" /\ ops[i].pc = "updateRequest"
  /\ requests' = [requests EXCEPT ![i].status = "matched",
                                  ![i].matchedPoolId = ops[i].poolId]
  /\ ops' = [ops EXCEPT ![i].success = TRUE, ![i].pc = "releaseLock"]
  /\ UNCHANGED <<call, pools, lock, joined>>

\* the finally block of processRideRequest, then the return on success or the
\* fall-through to step 3
ProcessRideRequest_ReleaseLock(i) ==
  /\ ops[i].kind = "request" /\ ops[i].pc = "releaseLock"
  /\ lock' = releaseLock(lock, ops[i].poolId, ops[i].lockValue)
  /\ ops' = [ops EXCEPT
       ![i].released = IF lock'[ops[i].poolId] # lock[ops[i].poolId] THEN "deleted" ELSE "kept",
       ![i].lockAge = 0,
       ![i].pc = IF ops[i].success THEN "done" ELSE "createNewPool",
       ![i].result = IF ops[i].success
                     THEN [NoResult EXCEPT
                             !.state = "returned", !.poolId = ops[i].poolId,
                             !.estimatedPrice = ops[i].price,
                             !.detour = [num |-> ops[i].matchedPool.calculatedDetour.num,
                                         den |-> ops[i].matchedPool.calculatedDetour.den]]
                     ELSE @]
  /\ UNCHANGED <<call, pools, requests, joined>>

\* pool.save() of createNewPool: an insert, the pre-save hook does not increment
CreateNewPool_Save(i) ==
  /\ ops[i].kind = "request" /\ ops[i].pc = "createNewPool"
  /\ pools' = [pools EXCEPT ![NextPoolId] = NewPoolDocument(NextPoolId, requests[i])]
  /\ joined' = [joined EXCEPT ![NextPoolId] = @ \cup {i}]
  /\ ops' = [ops EXCEPT ![i].newPool = NewPoolDocument(NextPoolId, requests[i]),
                        ![i].pc = "updateRequestNew"]
  /\ UNCHANGED <<call, requests, lock>>

\* RideRequest.findByIdAndUpdate of createNewPool and the return of step 3
CreateNewPool_UpdateRequest(i) ==
  /\ ops[i].kind = "request" /\ ops[i].pc = "updateRequestNew"
  /\ requests' = [requests EXCEPT ![i].status = "matched",
                                  ![i].matchedPoolId = ops[i].newPool._id]
  /\ ops' = [ops EXCEPT
       ![i].pc = "done",
       ![i].result = [NoResult EXCEPT !.state = "returned", !.poolId = ops[i].newPool._id,
                                      !.estimatedPrice = ops[i].newPool.passengers[1].price,
                                      !.detour = [num |-> 0, den |-> 1],
                                      !.isNewPool = TRUE]]
  /\ UNCHANGED <<call, pools, lock, joined>>

\* --------------------------------------------------------------- cancelRide
\* rideController.cancelRide hands the caller's user id and pool id over
cancelRide(i, userId, poolId) ==
  /\ CanStart(i)
  /\ ops' = [ops EXCEPT ![i] = [IdleOp EXCEPT !.kind = "cancel", !.userId = userId,
                                              !.poolId = poolId, !.pc = "acquireLock"]]
  /\ UNCHANGED <<call, pools, requests, lock, joined>>

\* findById and removePassenger; both errors are thrown inside the try block
CancelRide_FindById(i) ==
  /\ ops[i].kind = "cancel" /\ ops[i].pc = "findById"
  /\ LET pool == IF ops[i].poolId \in PoolIds THEN pools[ops[i].poolId] ELSE NoPool
         removal == removePassenger(pool, ops[i].userId)
     IN ops' = [ops EXCEPT
          ![i].pool = removal.pool,
          ![i].loads = @ + 1,
          ![i].removedRequests = {pool.passengers[k].requestId : k \in
                                    {j \in 1..Len(pool.passengers) :
                                       pool.passengers[j].userId = ops[i].userId}},
          ![i].error = IF pool = NoPool THEN "Pool not found"
                       ELSE IF ~removal.removed THEN "Passenger not found in pool" ELSE @,
          ![i].pc = IF pool # NoPool /\ removal.removed THEN "save" ELSE "releaseLock"]
  /\ UNCHANGED <<call, pools, requests, lock, joined>>

\* cancelRide going on after a failed save as if it had succeeded
CancelRide_Save_ErrorSwallowed(i) ==
  /\ ops[i].kind = "cancel" /\ ops[i].pc = "save"
  /\ LET id == ops[i].poolId
         pool == CancelDocument(ops[i].pool, ops[i].userId)
         saved == save(pools[id], pool)
     IN /\ pools' = [pools EXCEPT ![id] = saved.stored]
        /\ joined' = IF saved.ok
                     THEN [joined EXCEPT ![id] = {r \in @ : requests[r].userId # ops[i].userId}]
                     ELSE joined
        /\ ops' = [ops EXCEPT
             ![i].pool = pool,
             ![i].saved = IF saved.ok THEN "committed" ELSE "conflict",
             ![i].pc = "updateRequest"]
  /\ UNCHANGED <<call, requests, lock>>

\* pool.save() of cancelRide; a VersionError leaves the try block
CancelRide_Save(i) ==
  /\ ops[i].kind = "cancel" /\ ops[i].pc = "save"
  /\ LET id == ops[i].poolId
         pool == CancelDocument(ops[i].pool, ops[i].userId)
         saved == save(pools[id], pool)
     IN /\ pools' = [pools EXCEPT ![id] = saved.stored]
        /\ joined' = IF saved.ok
                     THEN [joined EXCEPT ![id] = {r \in @ : requests[r].userId # ops[i].userId}]
                     ELSE joined
        /\ ops' = [ops EXCEPT
             ![i].pool = pool,
             ![i].saved = IF saved.ok THEN "committed" ELSE "conflict",
             ![i].error = IF saved.ok THEN @ ELSE "VersionError",
             ![i].pc = IF saved.ok THEN "updateRequest" ELSE "releaseLock"]
  /\ UNCHANGED <<call, requests, lock>>

\* lines 608-621 of cancelRide: the passenger is looked up in the saved
\* document and its request is updated if an entry of the user is found
CancelRide_UpdateRequest(i) ==
  /\ ops[i].kind = "cancel" /\ ops[i].pc = "updateRequest"
  /\ LET passenger == FindPassenger(ops[i].pool.passengers, ops[i].userId)
     IN requests' = IF passenger # 0
                    THEN [requests EXCEPT
                            ![ops[i].pool.passengers[passenger].requestId].status = "cancelled"]
                    ELSE requests
  /\ ops' = [ops EXCEPT ![i].success = TRUE, ![i].pc = "releaseLock"]
  /\ UNCHANGED <<call, pools, lock, joined>>

\* the finally block of cancelRide, then its return or the rethrow
CancelRide_ReleaseLock(i) ==
  /\ ops[i].kind = "cancel" /\ ops[i].pc = "releaseLock"
  /\ lock' = releaseLock(lock, ops[i].poolId, ops[i].lockValue)
  /\ ops' = [ops EXCEPT
       ![i].released = IF lock'[ops[i].poolId] # lock[ops[i].poolId] THEN "deleted" ELSE "kept",
       ![i].lockAge = 0,
       ![i].pc = "done",
       ![i].result = IF ops[i].success
                     THEN [NoResult EXCEPT !.state = "returned", !.poolId = ops[i].poolId]
                     ELSE [NoResult EXCEPT !.state = "thrown", !.error = ops[i].error]]
  /\ UNCHANGED <<call, pools, requests, joined>>

\* --------------------------------------------------------------------- Redis
\* one tick of time: a key set with PX expires when its age reaches px
Tick ==
  /\ \E k \in LockKeys : lock[k].token # 0
  /\ lock' = [k \in LockKeys |->
       IF lock[k].token = 0 THEN lock[k]
       ELSE IF lock[k].px > 0 /\ lock[k].age + 1 >= lock[k].px THEN NoLock
       ELSE [lock[k] EXCEPT !.age = IF @ < LOCK_TIMEOUT_MS THEN @ + 1 ELSE @]]
  /\ lock' # lock
  /\ ops' = [i \in Ops |->
       IF InCritical(i) /\ ops[i].lockAge < LOCK_TIMEOUT_MS
       THEN [ops[i] EXCEPT !.lockAge = @ + 1] ELSE ops[i]]
  /\ UNCHANGED <<call, pools, requests, joined>>

Next ==
  \/ \E i \in Ops, userId \in Callers, body \in RequestInputs :
       createRideRequest(i, userId, body)
  \/ \E i \in Ops : ProcessRideRequest_FindMatch(i)
  \/ \E i \in Ops : AcquireLock(i)
  \/ \E i \in Ops : AddToExistingPool_FindById(i)
  \/ \E i \in Ops, hour \in ClockHours : AddToExistingPool_Save(i, hour)
  \/ \E i \in Ops : AddToExistingPool_UpdateRequest(i)
  \/ \E i \in Ops : ProcessRideRequest_ReleaseLock(i)
  \/ \E i \in Ops : CreateNewPool_Save(i)
  \/ \E i \in Ops : CreateNewPool_UpdateRequest(i)
  \/ \E i \in Ops, userId \in Callers, poolId \in PoolIds \cup {UnknownPoolId} :
       /\ poolId \in PoolIds => pools[poolId] # NoPool
       /\ cancelRide(i, userId, poolId)
  \/ \E i \in Ops : CancelRide_FindById(i)
  \/ \E i \in Ops : CancelRide_Save(i)
  \/ \E i \in Ops : CancelRide_UpdateRequest(i)
  \/ \E i \in Ops : CancelRide_ReleaseLock(i)
  \/ Tick

Spec == Init /\ [][Next]_vars

\* -------------------------------------------------------------- properties
PoolExists(p) == pools[p] # NoPool

HasEntry(pool, requestId) ==
  \E k \in 1..Len(pool.passengers) : pool.passengers[k].requestId = requestId

\* C1: in every reachable state every pool's occupied seats are at most the
\* vehicle's capacity and its occupied luggage at most the luggage capacity
C1_CapacityRespected ==
  \A p \in PoolIds :
    /\ pools[p].currentOccupancy.seats <= pools[p].vehicle.capacity
    /\ pools[p].currentOccupancy.luggage <= pools[p].vehicle.luggageCapacity

\* a pool filled to its seat capacity by a committed join, and a request that
\* had chosen the pool before and was turned away by the double-check
C1_Witness ==
  \E p \in PoolIds, i \in Ops :
    /\ pools[p].currentOccupancy.seats = pools[p].vehicle.capacity
    /\ Len(pools[p].passengers) >= 2
    /\ ops[i].kind = "request" /\ ops[i].poolId = p /\ ops[i].recheck = "failed"

\* C2 as stated: no two operations are between acquire and release of the
\* same pool's lock at the same moment
C2_OneInCriticalSection ==
  \A i \in Ops, j \in Ops :
    i # j /\ InCritical(i) /\ InCritical(j) => ops[i].poolId # ops[j].poolId

\* C2 amended: two operations are between acquire and release of the same
\* pool's lock only if the lock timeout of one of them has elapsed
C2_ExclusiveUntilTimeout ==
  \A i \in Ops, j \in Ops :
    i # j /\ InCritical(i) /\ InCritical(j) /\ ops[i].poolId = ops[j].poolId
      => ops[i].lockAge >= LOCK_TIMEOUT_MS \/ ops[j].lockAge >= LOCK_TIMEOUT_MS

\* two operations about to save the same pool, the lock of one timed out
C2_Witness ==
  \E i \in Ops, j \in Ops :
    /\ i # j /\ ops[i].poolId = ops[j].poolId
    /\ ops[i].pc = "save" /\ ops[j].pc = "save"
    /\ ops[i].lockAge >= LOCK_TIMEOUT_MS

\* C3: of the saves made from copies of one pool loaded at one version at
\* most one commits and the others fail with a version conflict, and every
\* request whose join committed has a passenger entry in its pool unless a
\* cancel of its user committed afterwards
C3_NoLostJoin ==
  /\ \A p \in PoolIds : \A r \in joined[p] : HasEntry(pools[p], r)
  /\ \A i \in Ops, j \in Ops :
       /\ i # j /\ ops[i].poolId = ops[j].poolId
       /\ ops[i].pool.versionKey = ops[j].pool.versionKey
       /\ ops[i].saved = "committed" /\ ops[j].saved # "none"
       => ops[j].saved = "conflict"

\* two operations loaded one pool at one version; one save committed, the
\* other met the version conflict, and the committed join is in the pool
C3_Witness ==
  \E i \in Ops, j \in Ops :
    /\ i # j /\ ops[i].poolId = ops[j].poolId
    /\ ops[i].pool.versionKey = ops[j].pool.versionKey
    /\ ops[i].kind = "request" /\ ops[i].saved = "committed"
    /\ ops[j].saved = "conflict"
    /\ HasEntry(pools[ops[i].poolId], i)

Count(stops, type, userId) ==
  Cardinality({k \in 1..Len(stops) : stops[k].type = type /\ stops[k].passengerId = userId})

Entries(passengers, userId) ==
  Cardinality({k \in 1..Len(passengers) : passengers[k].userId = userId})

\* C4 as stated: every stored pool has twice as many stops as passenger
\* entries, one pickup and one dropoff stop for each passenger entry
C4_TwoStopsPerPassenger ==
  \A p \in PoolIds :
    PoolExists(p) =>
      /\ Len(pools[p].route.stops) = 2 * Len(pools[p].passengers)
      /\ \A u \in Users :
           /\ Count(pools[p].route.stops, "pickup", u) = Entries(pools[p].passengers, u)
           /\ Count(pools[p].route.stops, "dropoff", u) = Entries(pools[p].passengers, u)

\* the step is operation i leaving position pc
Leaves(i, pc) == ops[i].pc = pc /\ ops'[i].pc # pc

\* C5 as stated: the schema's version grows by exactly 1 with every
\* committed change of a stored pool and never otherwise, and a save from a
\* copy loaded at an older version changes nothing
C5_VersionCountsMutations ==
  [][/\ \A p \in PoolIds :
          PoolExists(p) =>
            pools'[p].version = pools[p].version + (IF pools'[p] # pools[p] THEN 1 ELSE 0)
     /\ \A i \in Ops :
          Leaves(i, "save") /\ ops[i].pool.versionKey # pools[ops[i].poolId].versionKey
            => pools' = pools]_vars

\* C6: acquireLock returns a token only if no unexpired lock is stored for
\* the key, the key then holds that token, no key is held once its timeout
\* has elapsed, and before that only a release removes it
C6_AcquireOnlyWhenFree ==
  /\ [][\A i \in Ops :
          Leaves(i, "acquireLock") /\ ops'[i].pc = "findById"
            => /\ lock[ops[i].poolId].token = 0
               /\ lock'[ops[i].poolId].token = ops'[i].lockValue]_vars
  /\ [](\A k \in LockKeys : lock[k].token # 0 => lock[k].age < LOCK_TIMEOUT_MS)
  /\ [][\A k \in LockKeys :
          lock[k].token # 0 /\ lock'[k].token # lock[k].token
            => /\ lock'[k] = NoLock
               /\ \/ lock[k].age + 1 = LOCK_TIMEOUT_MS
                  \/ \E i \in Ops : Leaves(i, "releaseLock") /\ ops[i].lockValue = lock[k].token]_vars

\* an operation holds the key that an earlier, still unfinished holder lost
\* to the timeout
C6_Witness ==
  \E i \in Ops, j \in Ops :
    /\ i # j /\ ops[i].poolId = ops[j].poolId
    /\ InCritical(i) /\ ops[i].lockAge = LOCK_TIMEOUT_MS
    /\ InCritical(j) /\ lock[ops[j].poolId].token = ops[j].lockValue

\* C7: releaseLock deletes the key if it holds the caller's token and leaves
\* the store as it is otherwise
C7_ReleaseOnlyOwnToken ==
  [][\A i \in Ops :
       Leaves(i, "releaseLock")
         => LET k == ops[i].poolId
            IN IF lock[k].token = ops[i].lockValue
               THEN lock' = [lock EXCEPT ![k] = NoLock]
               ELSE lock' = lock]_vars

\* an operation whose lock had timed out has released, and the key still
\* holds the token of the operation that acquired it afterwards
C7_Witness ==
  \E i \in Ops, j \in Ops :
    /\ i # j /\ ops[i].poolId = ops[j].poolId
    /\ ops[i].released = "kept" /\ ops[i].lockValue = i
    /\ InCritical(j) /\ lock[ops[j].poolId].token = j

LockFailure(i) ==
  ops[i].result.state = "thrown" /\ ops[i].result.error = "Failed to acquire lock"

C10_FullPoolFallsBackToNewPool ==
  \A i \in Ops :
    ops[i].recheck = "failed"
      => /\ ops[i].saved = "none"
         /\ ~HasEntry(pools[ops[i].poolId], i)
         /\ ops[i].pc \in {"createNewPool", "updateRequestNew", "done"}
              => ops[i].released # "none" /\ lock[ops[i].poolId].token # ops[i].lockValue
         /\ ops[i].pc = "done"
              => /\ ops[i].result.state = "returned" /\ ops[i].result.error = ""
                 /\ ops[i].result.isNewPool
                 /\ ops[i].result.poolId \in PoolIds \ {ops[i].poolId}
                 /\ requests[i].matchedPoolId = ops[i].result.poolId
                 /\ \/ HasEntry(pools[ops[i].result.poolId], i)
                    \/ pools[ops[i].result.poolId].versionKey > 0

\* a request has ended after the double-check turned it away from a pool
\* that a concurrent join had filled
C10_Witness ==
  \E i \in Ops :
    /\ ops[i].recheck = "failed" /\ ops[i].pc = "done"
    /\ ops[i].matchedPool.pool.versionKey < pools[ops[i].poolId].versionKey

\* the operation has ended its join or its cancel: a cancel has returned or
\* thrown, a request has returned or gone on to createNewPool
Finished(i) ==
  \/ ops[i].pc = "done"
  \/ ops[i].kind = "request" /\ ops[i].pc \in {"createNewPool", "updateRequestNew"}

\* C11: a stored pool is changed only by the save of an operation that has
\* acquired the pool's lock and not yet released it (or by createNewPool
\* inserting a new document), and an operation that acquired the lock and
\* has finished has called releaseLock and its token is no longer stored
C11_WritesInsideLockSection ==
  /\ [][\A p \in PoolIds :
          pools'[p] # pools[p]
            => \/ ~PoolExists(p) /\ \E i \in Ops : Leaves(i, "createNewPool")
               \/ \E i \in Ops :
                    /\ Leaves(i, "save") /\ ops[i].poolId = p
                    /\ ops[i].acquires = 1 /\ ops[i].lockValue = i
                    /\ ops[i].released = "none" /\ ops'[i].released = "none"]_vars
  /\ [](\A i \in Ops :
          ops[i].lockValue # 0 /\ Finished(i)
            => /\ ops[i].released # "none"
               /\ \A k \in LockKeys : lock[k].token # ops[i].lockValue)

\* a join that committed its save, a join that met the failed double-check
\* and a cancel that threw have all finished, and no lock is stored
C11_Witness ==
  /\ \E i \in Ops : /\ ops[i].kind = "request" /\ ops[i].pc = "done"
                     /\ ops[i].saved = "committed" /\ ops[i].released = "deleted"
  /\ \E i \in Ops : /\ ops[i].kind = "cancel" /\ ops[i].pc = "done"
                     /\ ops[i].result.state = "thrown" /\ ops[i].released = "deleted"
  /\ \A k \in LockKeys : lock[k] = NoLock

RECURSIVE SumSeats(_)
SumSeats(passengers) ==
  IF passengers = <<>> THEN 0
  ELSE Head(passengers).passengerCount + SumSeats(Tail(passengers))

RECURSIVE SumLuggage(_)
SumLuggage(passengers) ==
  IF passengers = <<>> THEN 0
  ELSE Head(passengers).luggageCount + SumLuggage(Tail(passengers))

\* C12 as stated: in every stored pool the occupied seats are the sum of the
\* passenger entries' passenger counts and the occupied luggage the sum of
\* their luggage counts
C12_OccupancyIsSum ==
  \A p \in PoolIds :
    PoolExists(p) =>
      /\ pools[p].currentOccupancy.seats = SumSeats(pools[p].passengers)
      /\ pools[p].currentOccupancy.luggage = SumLuggage(pools[p].passengers)

\* C13 as stated: a cancel that removed the pool's only passenger has
\* committed a pool with status cancelled, no passenger entries and an
\* occupancy of 0 seats and 0 luggage
C13_SoleCancelEmptiesPool ==
  \A i \in Ops :
    /\ ops[i].kind = "cancel" /\ ops[i].saved = "committed"
    /\ Len(ops[i].pool.passengers) = 0
    => /\ ops[i].pool.status = "cancelled"
       /\ ops[i].pool.currentOccupancy = [seats |-> 0, luggage |-> 0]

\* ------------------------------------------- operations run one at a time
\* no operation is under way
Quiet == \A j \in Ops : ops[j].pc \in {"idle", "done"}

\* a pool that an earlier request of another user left far from the pickups
\* of RequestInputs: forming, one passenger, room for every request
FarPool(id) ==
  NewPoolDocument(id,
    [_id |-> 0, userId |-> MaxUsers + 1, pickupLocation |-> 100, dropoffLocation |-> 104,
     passengers |-> 1, luggage |-> 0])

\* the database is empty, or holds FIND_LIMIT stored pools already
SoloInit ==
  /\ call = NoCall
  /\ requests = [r \in Ops |-> NoRequest]
  /\ ops = [i \in Ops |-> IdleOp]
  /\ \E stored \in {0, FIND_LIMIT} :
       /\ pools = [p \in 1..(stored + MaxOps) |->
                     IF p <= stored THEN FarPool(p) ELSE NoPool]
       /\ lock = [k \in 0..(stored + MaxOps) |-> NoLock]
       /\ joined = [p \in 1..(stored + MaxOps) |-> {}]

\* the pool ids the callers were given in responses
KnownPoolIds == {ops[j].result.poolId : j \in Ops} \cap PoolIds

\* Next with every operation started only when none is under way
SoloNext ==
  \/ \E i \in Ops, userId \in Callers, body \in RequestInputs :
       Quiet /\ createRideRequest(i, userId, body)
  \/ \E i \in Ops : ProcessRideRequest_FindMatch(i)
  \/ \E i \in Ops : AcquireLock(i)
  \/ \E i \in Ops : AddToExistingPool_FindById(i)
  \/ \E i \in Ops, hour \in ClockHours : AddToExistingPool_Save(i, hour)
  \/ \E i \in Ops : AddToExistingPool_UpdateRequest(i)
  \/ \E i \in Ops : ProcessRideRequest_ReleaseLock(i)
  \/ \E i \in Ops : CreateNewPool_Save(i)
  \/ \E i \in Ops : CreateNewPool_UpdateRequest(i)
  \/ \E i \in Ops, userId \in Callers, poolId \in KnownPoolIds \cup {UnknownPoolId} :
       Quiet /\ cancelRide(i, userId, poolId)
  \/ \E i \in Ops : CancelRide_FindById(i)
  \/ \E i \in Ops : CancelRide_Save(i)
  \/ \E i \in Ops : CancelRide_UpdateRequest(i)
  \/ \E i \in Ops : CancelRide_ReleaseLock(i)
  \/ Tick

SpecSolo == SoloInit /\ [][SoloNext]_vars

\* the pool is a candidate the request can join: forming or matched, room
\* for the request, a stop within the matching radius of the pickup, and a
\* minimal insertion detour within the request's tolerance
Eligible(pool, rideRequest) ==
  /\ Available(pool, rideRequest.passengers, rideRequest.luggage)
  /\ \E k \in 1..Len(pool.route.stops) :
       isWithinRadius(rideRequest.pickupLocation, pool.route.stops[k].location,
                      MATCHING_RADIUS_KM)
  /\ LET detour == calculateDetour(pool.route.stops, rideRequest.pickupLocation,
                                   rideRequest.dropoffLocation)
     IN detour.found /\ detour.num * 100 <= rideRequest.detourTolerance * detour.den

\* C14 as stated, with operations run one at a time: the latest request does
\* not go on to create a pool while a stored pool is eligible for it, and
\* once it has returned after finding a match it was added to that pool,
\* whose occupancy grew by the request's passengers and luggage
C14_EligiblePoolIsJoined ==
  \A i \in Ops :
    /\ ops[i].kind = "request"
    /\ \A j \in Ops : j > i => ops[j].kind = "none"
    => /\ ops[i].pc = "createNewPool" /\ ops[i].acquires = 0
            => ~\E p \in PoolIds : Eligible(pools[p], requests[i])
       /\ ops[i].pc = "done" /\ ops[i].matchedPool.pool # NoPool
            => /\ ~ops[i].result.isNewPool /\ ops[i].result.poolId = ops[i].poolId
               /\ pools[ops[i].poolId].currentOccupancy =
                    [seats |-> ops[i].matchedPool.pool.currentOccupancy.seats
                                 + requests[i].passengers,
                     luggage |-> ops[i].matchedPool.pool.currentOccupancy.luggage
                                   + requests[i].luggage]

\* C15: a request whose candidate search found no pool to join has, once it
\* returned, created a pool and returned it with isNewPool = true and detour
\* 0; the pool it created is forming, has the request as its one passenger
\* entry, the request's passengers and luggage as occupancy and the stops
\* [pickup, dropoff], and is stored as created until a later save changes it
C15_NoCandidateCreatesPool ==
  \A i \in Ops :
    ops[i].kind = "request" /\ ops[i].matchedPool = NoMatch /\ ops[i].pc = "done"
    => LET created == ops[i].newPool
           rideRequest == requests[i]
       IN /\ ops[i].result.state = "returned" /\ ops[i].result.isNewPool
          /\ ops[i].result.detour = [num |-> 0, den |-> 1]
          /\ ops[i].result.poolId = created._id /\ created._id \in PoolIds
          /\ ops[i].acquires = 0
          /\ created.status = "forming"
          /\ Len(created.passengers) = 1
          /\ created.passengers[1].requestId = i
          /\ created.passengers[1].userId = rideRequest.userId
          /\ created.currentOccupancy =
               [seats |-> rideRequest.passengers, luggage |-> rideRequest.luggage]
          /\ Len(created.route.stops) = 2
          /\ created.route.stops[1].type = "pickup"
          /\ created.route.stops[1].location = rideRequest.pickupLocation
          /\ created.route.stops[2].type = "dropoff"
          /\ created.route.stops[2].location = rideRequest.dropoffLocation
          /\ PoolExists(created._id)
          /\ pools[created._id].versionKey = 0 => pools[created._id] = created

\* a request has returned a new pool although a forming pool with room and a
\* stop at its pickup was stored before: the detour exceeds its tolerance
C15_Witness ==
  \E i \in Ops, p \in PoolIds :
    /\ ops[i].kind = "request" /\ ops[i].matchedPool = NoMatch /\ ops[i].pc = "done"
    /\ p < ops[i].result.poolId /\ pools[p].versionKey = 0
    /\ Available(pools[p], requests[i].passengers, requests[i].luggage)
    /\ isWithinRadius(requests[i].pickupLocation, pools[p].route.stops[1].location,
                      MATCHING_RADIUS_KM)
    /\ ~Eligible(pools[p], requests[i])

\* C16: no stored pool with status forming has two or more passenger
\* entries, and a pool still stored as a committed join saved it, loaded as
\* forming and left with two or more entries, has status matched
C16_FormingHasOnePassenger ==
  /\ \A p \in PoolIds :
       pools[p].status = "forming" => Len(pools[p].passengers) < 2
  /\ \A i \in Ops :
       /\ ops[i].kind = "request" /\ ops[i].saved = "committed"
       /\ pools[ops[i].poolId].versionKey = ops[i].pool.versionKey + 1
       /\ ops[i].pool.status = "forming"
       /\ Len(pools[ops[i].poolId].passengers) >= 2
       => pools[ops[i].poolId].status = "matched"

\* a join has committed on a pool it loaded as forming, and the pool is
\* stored as that join left it: two passenger entries
C16_Witness ==
  \E i \in Ops :
    /\ ops[i].kind = "request" /\ ops[i].saved = "committed"
    /\ ops[i].pool.status = "forming"
    /\ pools[ops[i].poolId].versionKey = ops[i].pool.versionKey + 1
    /\ Len(pools[ops[i].poolId].passengers) = 2

\* the step is processRideRequest of operation i returning its result
Returns(i) ==
  /\ ops[i].kind = "request" /\ ops[i].pc # "done"
  /\ ops'[i].pc = "done" /\ ops'[i].result.state = "returned"

NeverReopened ==
  \A r \in Ops :
    requests[r].status \in {"matched", "expired", "cancelled"}
      => requests'[r].status # "pending"

\* C17 as stated: a request that is matched, expired or cancelled never
\* becomes pending again, and when processRideRequest returns the request
\* is matched, its matchedPoolId is the returned pool and that pool has a
\* passenger entry of the request
C17_ReturnedRequestIsInPool ==
  [][/\ NeverReopened
     /\ \A i \in Ops :
          Returns(i)
            => /\ requests'[i].status = "matched"
               /\ requests'[i].matchedPoolId = ops'[i].result.poolId
               /\ HasEntry(pools'[ops'[i].result.poolId], i)]_vars

\* C17 amended: as above, but the returned pool has a passenger entry of
\* the request unless a cancel of the request's user committed on that pool
\* after the entry was saved
C17_ReturnedRequestIsMatched ==
  [][/\ NeverReopened
     /\ \A i \in Ops :
          Returns(i)
            => /\ requests'[i].status = "matched"
               /\ requests'[i].matchedPoolId = ops'[i].result.poolId
               /\ \/ HasEntry(pools'[ops'[i].result.poolId], i)
                  \/ /\ i \notin joined'[ops'[i].result.poolId]
                     /\ \E j \in Ops :
                          /\ ops'[j].kind = "cancel" /\ ops'[j].saved = "committed"
                          /\ ops'[j].userId = ops'[i].userId
                          /\ ops'[j].poolId = ops'[i].result.poolId]_vars

\* a request has returned the pool it joined, and a cancel of its user that
\* took the pool's lock after the join's lock had timed out has removed its
\* entry
C17_Witness ==
  \E i \in Ops, j \in Ops :
    /\ ops[i].kind = "request" /\ ops[i].pc = "done" /\ ops[i].result.state = "returned"
    /\ ~ops[i].result.isNewPool /\ ops[i].released = "kept"
    /\ requests[i].status = "matched"
    /\ ~HasEntry(pools[ops[i].result.poolId], i)
    /\ ops[j].kind = "cancel" /\ ops[j].saved = "committed"
    /\ ops[j].poolId = ops[i].result.poolId

NotFoundError(i) == ops[i].error \in {"Pool not found", "Passenger not found in pool"}

\* C18: a cancelRide that holds the lock and loads no pool fails with 'Pool
\* not found', one that loads a pool without an entry of the user fails
\* with 'Passenger not found in pool'; from the load to the throw it writes
\* no pool and no request, it never saves, and when it has thrown it has
\* called releaseLock and its token is no longer stored
C18_NotFoundChangesNothing ==
  /\ [][\A i \in Ops :
          ops[i].kind = "cancel"
            => /\ Leaves(i, "findById")
                    => LET pool == IF ops[i].poolId \in PoolIds
                                   THEN pools[ops[i].poolId] ELSE NoPool
                       IN /\ pool = NoPool
                               => /\ ops'[i].error = "Pool not found"
                                  /\ ops'[i].pc = "releaseLock"
                          /\ pool # NoPool /\ Entries(pool.passengers, ops[i].userId) = 0
                               => /\ ops'[i].error = "Passenger not found in pool"
                                  /\ ops'[i].pc = "releaseLock"
                          /\ pools' = pools /\ requests' = requests
               /\ Leaves(i, "releaseLock") /\ NotFoundError(i)
                    => /\ pools' = pools /\ requests' = requests
                       /\ ops'[i].pc = "done" /\ ops'[i].result.state = "thrown"
                       /\ ops'[i].result.error = ops[i].error
                       /\ lock'[ops[i].poolId].token # ops[i].lockValue]_vars
  /\ [](\A i \in Ops :
          ops[i].kind = "cancel" /\ NotFoundError(i)
            => /\ ops[i].saved = "none" /\ ops[i].loads = 1
               /\ ops[i].pc \in {"releaseLock", "done"}
               /\ ops[i].pc = "done" => ops[i].released # "none")

\* one cancel has thrown 'Pool not found' and another 'Passenger not found
\* in pool' on a stored pool that has passengers
C18_Witness ==
  \E i \in Ops, j \in Ops :
    /\ ops[i].kind = "cancel" /\ ops[i].pc = "done"
    /\ ops[i].result.error = "Pool not found" /\ ops[i].released = "deleted"
    /\ ops[j].kind = "cancel" /\ ops[j].pc = "done"
    /\ ops[j].result.error = "Passenger not found in pool" /\ ops[j].released = "deleted"
    /\ Len(pools[ops[j].poolId].passengers) > 0

RECURSIVE SumPrices(_)
SumPrices(passengers) ==
  IF passengers = <<>> THEN 0
  ELSE Head(passengers).price + SumPrices(Tail(passengers))

\* what the passengers would pay travelling alone: the base price of each
\* entry's request
RECURSIVE SumSoloPrices(_)
SumSoloPrices(passengers) ==
  IF passengers = <<>> THEN 0
  ELSE BasePriceOf(requests[Head(passengers).requestId]) + SumSoloPrices(Tail(passengers))

\* C19 as stated: in every stored pool with at least one passenger entry the
\* stored prices sum to at most 0.85 times the sum of the passengers' solo
\* prices
C19_PoolPricesFair ==
  \A p \in PoolIds :
    PoolExists(p) /\ Len(pools[p].passengers) >= 1
      => 100 * SumPrices(pools[p].passengers) <= 85 * SumSoloPrices(pools[p].passengers)

\* ------------------------------------- PricingEngine functions on their own
\* the solo prices of the passengers of a call: the minimum fare and the
\* base prices of a 4 km and a 12 km trip
IndividualPrices == {500, 1400, 3600}

\* the passenger lists of one to MAX_POOL_SIZE passengers
PassengerLists ==
  UNION {[1..n -> IndividualPrices] : n \in 1..MAX_POOL_SIZE}

\* pool totals below, between and above 0.85 times and once the least and
\* the greatest sum of individual prices
TotalPoolPrices == {400, 450, 500, 600, 1000, 5000, 12240, 13000, 14400, 20000}

Call_ensureFairPricing(prices, totalPoolPrice) ==
  /\ LET passengers == [i \in 1..Len(prices) |->
                          [passengerId |-> i, individualPrice |-> prices[i]]]
     IN call' = [fn |-> "ensureFairPricing",
                 args |-> [passengers |-> passengers, totalPoolPrice |-> totalPoolPrice],
                 returned |-> TRUE,
                 result |-> ensureFairPricing(passengers, totalPoolPrice)]
  /\ UNCHANGED <<pools, requests, lock, ops, joined>>

PricingNext ==
  \E prices \in PassengerLists, totalPoolPrice \in TotalPoolPrices :
    Call_ensureFairPricing(prices, totalPoolPrice)

SpecPricing == Init /\ [][PricingNext]_vars

RECURSIVE SumResultPrices(_)
SumResultPrices(result) ==
  IF result = <<>> THEN 0 ELSE Head(result).price + SumResultPrices(Tail(result))

\* C20 as stated: the prices ensureFairPricing returns sum to at most 0.85
\* times the sum of the individual prices, up to half a cent of rounding
\* for each passenger, and each price is the passenger's share of the
\* individual prices times the total capped at 0.85 times their sum
C20_FairPricingCapsTotal ==
  call.fn = "ensureFairPricing"
    => LET passengers == call.args.passengers
           total == SumIndividualPrices(passengers)
           capped == IF 100 * call.args.totalPoolPrice > 85 * total
                     THEN Reduce(85 * total, 100)
                     ELSE Reduce(call.args.totalPoolPrice, 1)
       IN /\ 200 * SumResultPrices(call.result) <= 170 * total + 100 * Len(passengers)
          /\ \A i \in 1..Len(passengers) :
               call.result[i].price =
                 Round(passengers[i].individualPrice * capped.num, total * capped.den)

\* ---------------------------------------------------------- stored prices
Hours == 0..23
DemandMultipliers == {10, 12, 15, 20, 25}

\* BasePrice x DemandMultiplier x TimeMultiplier x (1 - PoolingDiscount)
\* x DistanceDiscount in cents, rounded to the cent, for a passenger who is
\* the passengersInPool-th of the pool with the detour num/den
PassengerPrice(rideRequest, passengersInPool, num, den, demandMultiplier, hour) ==
  LET directDistance == calculateDistance(rideRequest.pickupLocation,
                                          rideRequest.dropoffLocation)
      poolingDiscount == calculatePoolingDiscount(passengersInPool, num, den)
      surged == Times(Reduce(BasePriceOf(rideRequest), 1), Reduce(demandMultiplier, 10))
      timed == Times(surged, Reduce(getTimeMultiplier(hour), 10))
      pooled == Times(timed, Reduce(poolingDiscount.den - poolingDiscount.num,
                                    poolingDiscount.den))
      final == Times(pooled, Reduce(getDistanceDiscount(directDistance), 100))
  IN Round(final.num, final.den)

\* the join of request i committed
JoinCommitted(i) == ops[i].kind = "request" /\ ops[i].saved = "committed"

\* the price of request i is the formula's: for a join with the surge factor
\* of the loaded pool, the clock hour of the calculation, the passengers of
\* the loaded pool plus one and the detour found; for a new pool with one
\* passenger, detour 0 and whatever demand multiplier and clock hour
PriceIsFormula(i, price) ==
  IF JoinCommitted(i)
  THEN price = PassengerPrice(requests[i], Len(ops[i].pool.passengers) + 1,
                              ops[i].matchedPool.calculatedDetour.num,
                              ops[i].matchedPool.calculatedDetour.den,
                              ops[i].pool.pricing.surgeFactor, ops[i].hour)
  ELSE \E demandMultiplier \in DemandMultipliers, hour \in Hours :
         price = PassengerPrice(requests[i], 1, 0, 1, demandMultiplier, hour)

\* C21 as stated: the price returned for a request and the price of every
\* stored passenger entry of the request equal BasePrice x DemandMultiplier
\* x TimeMultiplier x (1 - PoolingDiscount(passengers in the pool including
\* this one, detour)) x DistanceDiscount rounded to the cent, for a join
\* and for a new pool alike
C21_PriceIsFormula ==
  \A i \in Ops :
    ops[i].kind = "request"
      => /\ ops[i].result.state = "returned"
              => PriceIsFormula(i, ops[i].result.estimatedPrice)
         /\ \A p \in PoolIds : \A k \in 1..Len(pools[p].passengers) :
              pools[p].passengers[k].requestId = i
                => PriceIsFormula(i, pools[p].passengers[k].price)

\* -------------------------------------------- calculateDetour on its own
\* the kilometre marks of the stops of a call
RouteMarks == {0, 4, 12}

\* whose stop each stop of a route of n stops is: the pools' routes of one
\* and of two passengers, and their prefixes
StopLabels(n) ==
  LET P1 == [type |-> "pickup", passengerId |-> 1]
      D1 == [type |-> "dropoff", passengerId |-> 1]
      P2 == [type |-> "pickup", passengerId |-> 2]
      D2 == [type |-> "dropoff", passengerId |-> 2]
  IN IF n = 0 THEN {<<>>}
     ELSE IF n = 1 THEN {<<P1>>}
     ELSE IF n = 2 THEN {<<P1, D1>>}
     ELSE IF n = 3 THEN {<<P1, P2, D1>>}
     ELSE {<<P1, D1, P2, D2>>, <<P1, P2, D1, D2>>, <<P1, P2, D2, D1>>}

\* the routes of up to MAX_POOL_SIZE stops over the marks, numbered as a
\* stored route is
Routes ==
  UNION {{[k \in 1..n |-> [type |-> labels[k].type, location |-> marks[k],
                            passengerId |-> labels[k].passengerId, sequence |-> k - 1]] :
            marks \in [1..n -> RouteMarks], labels \in StopLabels(n)} :
         n \in 0..MAX_POOL_SIZE}

\* a call of calculateDetour that is about to run
RoutesInit ==
  /\ call \in {[fn |-> "calculateDetour",
                 args |-> [originalRoute |-> originalRoute, newPickup |-> newPickup,
                           newDropoff |-> newDropoff],
                 returned |-> FALSE, result |-> NoDetour] :
                  originalRoute \in Routes, newPickup \in RouteMarks,
                  newDropoff \in RouteMarks}
  /\ pools = [p \in 1..MaxOps |-> NoPool]
  /\ requests = [r \in Ops |-> NoRequest]
  /\ lock = [k \in 0..MaxOps |-> NoLock]
  /\ ops = [i \in Ops |-> IdleOp]
  /\ joined = [p \in 1..MaxOps |-> {}]

Call_calculateDetour ==
  /\ call.fn = "calculateDetour" /\ ~call.returned
  /\ call' = [call EXCEPT
       !.returned = TRUE,
       \* the stops of the caller's array are the objects forEach writes
       !.args.originalRoute = IF Len(@) = 0 THEN @ ELSE Resequence(@),
       !.result = calculateDetour(call.args.originalRoute, call.args.newPickup,
                                  call.args.newDropoff)]
  /\ UNCHANGED <<pools, requests, lock, ops, joined>>

RoutesNext == Call_calculateDetour

SpecRoutes == RoutesInit /\ [][RoutesNext]_vars

\* C22: calculateDetour on an empty stop sequence returns detour 0, the route
\* of the new pickup with sequence 0 and the new dropoff with sequence 1, and
\* newDistance = distance(pickup, dropoff)
C22_EmptyRouteDetour ==
  call.fn = "calculateDetour" /\ call.returned /\ call.args.originalRoute = <<>>
    => /\ call.result.found /\ call.result.num = 0
       /\ Len(call.result.bestRoute) = 2
       /\ call.result.bestRoute[1].type = "pickup"
       /\ call.result.bestRoute[1].location = call.args.newPickup
       /\ call.result.bestRoute[1].sequence = 0
       /\ call.result.bestRoute[2].type = "dropoff"
       /\ call.result.bestRoute[2].location = call.args.newDropoff
       /\ call.result.bestRoute[2].sequence = 1
       /\ call.result.newDistance
            = calculateDistance(call.args.newPickup, call.args.newDropoff)

\* a call with an empty route and a dropoff 12 km from the pickup
C22_Witness ==
  /\ call.fn = "calculateDetour" /\ call.returned /\ call.args.originalRoute = <<>>
  /\ call.args.newPickup = 0 /\ call.args.newDropoff = 12
  /\ call.result.newDistance = 12

\* the stops of a route without their sequence numbers
Unsequenced(stops) ==
  [k \in 1..Len(stops) |-> [type |-> stops[k].type, location |-> stops[k].location,
                            passengerId |-> stops[k].passengerId]]

\* the total distance of the route with the pickup put at pickupPos and the
\* dropoff at dropoffPos of the call's route
InsertedDistance(pickupPos, dropoffPos) ==
  calculateRouteDistance(InsertRoute(call.args.originalRoute, call.args.newPickup,
                                     call.args.newDropoff, pickupPos, dropoffPos))

\* C23 as stated: for a non-empty route of n stops calculateDetour returns
\* the insertion (p, d), 0 <= p <= d <= n, of least total distance, the one
\* with the lowest p and then the lowest d among equal minima, with
\* newDistance its total distance and detour = (newDistance -
\* originalDistance) / originalDistance
C23_MinimalInsertion ==
  call.fn = "calculateDetour" /\ call.returned /\ Len(call.args.originalRoute) >= 1
    => LET n == Len(call.args.originalRoute)
           originalDistance == calculateRouteDistance(call.args.originalRoute)
       IN \E p \in 0..n, d \in 0..n :
            /\ p <= d
            /\ call.result.found
            /\ Unsequenced(call.result.bestRoute)
                 = Unsequenced(InsertRoute(call.args.originalRoute, call.args.newPickup,
                                           call.args.newDropoff, p, d))
            /\ call.result.newDistance = InsertedDistance(p, d)
            /\ call.result.num * originalDistance
                 = (InsertedDistance(p, d) - originalDistance) * call.result.den
            /\ \A q \in 0..n, e \in 0..n :
                 q <= e => /\ InsertedDistance(q, e) >= InsertedDistance(p, d)
                           /\ InsertedDistance(q, e) = InsertedDistance(p, d)
                                => q > p \/ (q = p /\ e >= d)

\* ----------------------------------- the rate functions on their own
\* passenger counts up to and beyond the count the base discount is capped at
PassengerCounts == 1..6
\* detours of 0 to 1 in tenths
DetourTenths == 0..10
\* distances around the two thresholds of the distance discount
DiscountDistances == {0, 10, 20, 21, 35, 50, 51, 80}
\* trips below and above the minimum fare
PriceDistances == 0..10
PriceDurations == {0, 1, 2, 15, 30}
\* demand from none to more than twice the supply, supply from none
ActiveRequests == 0..10
AvailableCabs == 0..4
\* whole distances up to 170 km
DurationDistances == 0..170

RateCalls ==
  {[fn |-> "calculatePoolingDiscount",
    args |-> [passengersCount |-> n, num |-> t, den |-> 10]] :
      n \in PassengerCounts, t \in DetourTenths}
  \cup {[fn |-> "getDistanceDiscount", args |-> [distanceKm |-> d]] :
           d \in DiscountDistances}
  \cup {[fn |-> "calculateBasePrice", args |-> [distanceKm |-> d, durationMin |-> m]] :
           d \in PriceDistances, m \in PriceDurations}
  \cup {[fn |-> "calculateDemandMultiplier",
         args |-> [activeRequests |-> a, availableCabs |-> c]] :
           a \in ActiveRequests, c \in AvailableCabs}
  \cup {[fn |-> "estimateDuration", args |-> [distanceKm |-> d]] :
           d \in DurationDistances}

\* a call of one of the rate functions that is about to run
RatesInit ==
  /\ call \in {[fn |-> c.fn, args |-> c.args, returned |-> FALSE, result |-> 0] :
                  c \in RateCalls}
  /\ pools = [p \in 1..MaxOps |-> NoPool]
  /\ requests = [r \in Ops |-> NoRequest]
  /\ lock = [k \in 0..MaxOps |-> NoLock]
  /\ ops = [i \in Ops |-> IdleOp]
  /\ joined = [p \in 1..MaxOps |-> {}]

\* the call returns value
Return(fn, value) ==
  /\ call.fn = fn /\ ~call.returned
  /\ call' = [call EXCEPT !.returned = TRUE, !.result = value]
  /\ UNCHANGED <<pools, requests, lock, ops, joined>>

Call_calculatePoolingDiscount ==
  Return("calculatePoolingDiscount",
         calculatePoolingDiscount(call.args.passengersCount, call.args.num, call.args.den))

Call_getDistanceDiscount ==
  Return("getDistanceDiscount", getDistanceDiscount(call.args.distanceKm))

Call_calculateBasePrice ==
  Return("calculateBasePrice",
         calculateBasePrice(call.args.distanceKm, call.args.durationMin))

Call_calculateDemandMultiplier ==
  Return("calculateDemandMultiplier",
         calculateDemandMultiplier(call.args.activeRequests, call.args.availableCabs))

Call_estimateDuration ==
  Return("estimateDuration", estimateDuration(call.args.distanceKm))

RatesNext ==
  \/ Call_calculatePoolingDiscount
  \/ Call_getDistanceDiscount
  \/ Call_calculateBasePrice
  \/ Call_calculateDemandMultiplier
  \/ Call_estimateDuration

SpecRates == RatesInit /\ [][RatesNext]_vars

Returned(fn) == call.fn = fn /\ call.returned

\* a >= b for the fractions a and b
AtLeast(a, b) == a.num * b.den >= b.num * a.den

C25_DistanceDiscountBands ==
  Returned("getDistanceDiscount")
    => call.result = IF call.args.distanceKm > 50 THEN 85
                     ELSE IF call.args.distanceKm > 20 THEN 90
                     ELSE 100

C27_BasePriceExampleAsStated ==
  Returned("calculateBasePrice") /\ call.args.distanceKm = 10 /\ call.args.durationMin = 15
    => call.result = 3350

\* C27 amended: with those rates calculateBasePrice(10, 15) is 30.50
C27_BasePriceExample ==
  Returned("calculateBasePrice") /\ call.args.distanceKm = 10 /\ call.args.durationMin = 15
    => call.result = 10 * 200 + 15 * 50 + 300 /\ call.result = 3050

\* the call calculateBasePrice(10, 15) has returned
C27_Witness ==
  /\ Returned("calculateBasePrice")
  /\ call.args.distanceKm = 10 /\ call.args.durationMin = 15
  /\ call.result > 0

\* C28: calculateDemandMultiplier maps r = activeRequests /
\* max(availableCapacity, 1) to 1.0 if r < 0.5, 1.2 if r < 1.0, 1.5 if
\* r < 1.5, 2.0 if r < 2.0 and 2.5 otherwise, also for a capacity of 0, and
\* returns nothing but these five values
C28_DemandBands ==
  Returned("calculateDemandMultiplier")
    => LET a == call.args.activeRequests
           c == IF call.args.availableCabs > 1 THEN call.args.availableCabs ELSE 1
       IN /\ call.result \in DemandMultipliers
          /\ 10 * a < 5 * c => call.result = 10
          /\ 10 * a >= 5 * c /\ 10 * a < 10 * c => call.result = 12
          /\ 10 * a >= 10 * c /\ 10 * a < 15 * c => call.result = 15
          /\ 10 * a >= 15 * c /\ 10 * a < 20 * c => call.result = 20
          /\ 10 * a >= 20 * c => call.result = 25

\* one active request and no capacity: the ratio is 1 and the multiplier 1.5
C28_Witness ==
  /\ Returned("calculateDemandMultiplier")
  /\ call.args.activeRequests = 1 /\ call.args.availableCabs = 0
  /\ call.result = 15

\* C29 as stated: estimateDuration(distanceKm) is the least whole number of
\* minutes that is at least distanceKm / 40 x 60, for every distance; for
\* 20 km it is 30, and it is never less than the exact travel time
C29_DurationIsCeiling ==
  Returned("estimateDuration")
    => /\ call.result * 40 >= call.args.distanceKm * 60
       /\ (call.result - 1) * 40 < call.args.distanceKm * 60
       /\ call.args.distanceKm = 20 => call.result = 30

\* ------------------------------------------------------ the order of stops
\* up to every stop of the route its passenger has at least as many pickup
\* stops as dropoff stops: each dropoff stop has its own earlier pickup stop
PickupFirst(stops) ==
  \A k \in 1..Len(stops) :
    Count(SubSeq(stops, 1, k), "pickup", stops[k].passengerId)
      >= Count(SubSeq(stops, 1, k), "dropoff", stops[k].passengerId)

\* the positions of the stop x, sequence number aside, in the route
Positions(stops, x) == {k \in 1..Len(stops) : Unsequenced(stops)[k] = x}

\* two stops that are each once in the old and once in the new route are in
\* the same order in both
OrderKept(old, new) ==
  \A k1 \in 1..Len(old), k2 \in 1..Len(old) :
    LET x1 == Unsequenced(old)[k1]
        x2 == Unsequenced(old)[k2]
    IN /\ k1 < k2
       /\ Positions(old, x1) = {k1} /\ Positions(old, x2) = {k2}
       /\ Cardinality(Positions(new, x1)) = 1 /\ Cardinality(Positions(new, x2)) = 1
       => \A n1 \in Positions(new, x1), n2 \in Positions(new, x2) : n1 < n2

\* C30: after every step, in every stored pool and in every route
\* calculateDetour returned to findBestMatch each passenger's pickup stop
\* comes before that passenger's dropoff stop, and a step that writes a
\* pool's route (a join or a cancel) keeps the order of the stops it neither
\* adds nor removes
C30_PickupBeforeDropoff ==
  [][/\ \A p \in PoolIds :
          /\ PickupFirst(pools'[p].route.stops)
          /\ PoolExists(p) => OrderKept(pools[p].route.stops, pools'[p].route.stops)
     /\ \A i \in Ops :
          PickupFirst(ops'[i].matchedPool.calculatedDetour.bestRoute)]_vars

\* a pool of two passengers in which the joining passenger's pickup was put
\* before and its dropoff between the stops of the other
C30_Witness ==
  \E p \in PoolIds :
    /\ Len(pools[p].route.stops) = 4
    /\ pools[p].route.stops[1].passengerId = pools[p].route.stops[3].passengerId
    /\ pools[p].route.stops[2].passengerId = pools[p].route.stops[4].passengerId
    /\ pools[p].route.stops[1].passengerId # pools[p].route.stops[2].passengerId
    /\ pools[p].passengers[2].userId = pools[p].route.stops[1].passengerId

\* ------------------------------------- operations on a pool of two riders
\* the requests of two earlier riders, whose ids lie behind those of the
\* operations: a long trip with three bags and a short trip of two passengers
EarlierLong ==
  [_id |-> MaxOps + 1, userId |-> 1, pickupLocation |-> 0, dropoffLocation |-> 12,
   passengers |-> 1, luggage |-> 3, detourTolerance |-> 30]
EarlierShort ==
  [_id |-> MaxOps + 2, userId |-> 2, pickupLocation |-> 0, dropoffLocation |-> 4,
   passengers |-> 2, luggage |-> 0, detourTolerance |-> 100]

\* pool 1 as createNewPool stored it for the long trip and addToExistingPool
\* saved it with the short trip at a normal hour
SharedPool ==
  LET created == NewPoolDocument(1, EarlierLong)
      poolData == [pool |-> created,
                   calculatedDetour |-> calculateDetour(created.route.stops,
                                                        EarlierShort.pickupLocation,
                                                        EarlierShort.dropoffLocation),
                   cost |-> 0]
  IN save(created, JoinDocument(created, poolData, EarlierShort, 12)).stored

SharedInit ==
  /\ call = NoCall
  /\ pools = [p \in 1..(MaxOps + 1) |-> IF p = 1 THEN SharedPool ELSE NoPool]
  /\ requests = [r \in Ops |-> NoRequest]
  /\ lock = [k \in 0..(MaxOps + 1) |-> NoLock]
  /\ ops = [i \in Ops |-> IdleOp]
  /\ joined = [p \in 1..(MaxOps + 1) |-> {}]

\* Next with no more than SharedOps operations started
SharedNext ==
  \/ \E i \in 1..SharedOps, userId \in Callers, body \in RequestInputs :
       createRideRequest(i, userId, body)
  \/ \E i \in Ops : ProcessRideRequest_FindMatch(i)
  \/ \E i \in Ops : AcquireLock(i)
  \/ \E i \in Ops : AddToExistingPool_FindById(i)
  \/ \E i \in Ops, hour \in ClockHours : AddToExistingPool_Save(i, hour)
  \/ \E i \in Ops : AddToExistingPool_UpdateRequest(i)
  \/ \E i \in Ops : ProcessRideRequest_ReleaseLock(i)
  \/ \E i \in Ops : CreateNewPool_Save(i)
  \/ \E i \in Ops : CreateNewPool_UpdateRequest(i)
  \/ \E i \in 1..SharedOps, userId \in Callers, poolId \in PoolIds \cup {UnknownPoolId} :
       /\ poolId \in PoolIds => pools[poolId] # NoPool
       /\ cancelRide(i, userId, poolId)
  \/ \E i \in Ops : CancelRide_FindById(i)
  \/ \E i \in Ops : CancelRide_Save(i)
  \/ \E i \in Ops : CancelRide_UpdateRequest(i)
  \/ \E i \in Ops : CancelRide_ReleaseLock(i)
  \/ Tick

SpecShared == SharedInit /\ [][SharedNext]_vars

\* the save of the join of request i commits in this step
JoinCommits(i) ==
  /\ ops[i].kind = "request" /\ ops[i].pc = "save"
  /\ ops'[i].saved = "committed"

\* C31 as stated: whenever a join commits, the least detour of inserting the
\* request's pickup and dropoff into the route the pool has at that moment is
\* at most the request's detourTolerance, and a detour returned with
\* isNewPool = false is at most the request's detourTolerance
C31_JoinWithinTolerance ==
  [][\A i \in Ops :
       /\ JoinCommits(i)
            => LET detour == calculateDetour(pools[ops[i].poolId].route.stops,
                                             requests[i].pickupLocation,
                                             requests[i].dropoffLocation)
               IN /\ detour.found
                  /\ detour.num * 100 <= requests[i].detourTolerance * detour.den
       /\ (ops'[i].kind = "request" /\ ops'[i].result.state = "returned"
             /\ ~ops'[i].result.isNewPool)
            => ops'[i].result.detour.num * 100
                 <= requests'[i].detourTolerance * ops'[i].result.detour.den]_vars

\* the candidate passes the detour filter of the request
PassesFilter(pool, rideRequest) ==
  LET detour == calculateDetour(pool.route.stops, rideRequest.pickupLocation,
                                rideRequest.dropoffLocation)
  IN detour.found /\ detour.num * 100 <= rideRequest.detourTolerance * detour.den

\* detourFraction x 100 + stopCount x 10 + occupiedSeats x 5 as a fraction
CostOf(pool, rideRequest) ==
  LET detour == calculateDetour(pool.route.stops, rideRequest.pickupLocation,
                                rideRequest.dropoffLocation)
  IN [num |-> detour.num * 100
              + (Len(pool.route.stops) * 10 + pool.currentOccupancy.seats * 5) * detour.den,
      den |-> detour.den]

\* C32: when a request's search for a match ends, the pool chosen is a
\* candidate that passes the detour filter and whose cost is the least among
\* those that pass, the first of them in candidate order among equal costs,
\* and no pool is chosen exactly when no candidate passes
C32_BestMatchIsCheapest ==
  [][\A i \in Ops :
       ops[i].pc = "findNearbyPools" /\ ops'[i].pc # "findNearbyPools"
         => LET rideRequest == requests[i]
                candidates == findNearbyPools(pools, rideRequest.pickupLocation,
                                              rideRequest.passengers, rideRequest.luggage)
                passing == {k \in 1..Len(candidates) :
                              PassesFilter(candidates[k], rideRequest)}
                chosen == ops'[i].matchedPool.pool
            IN /\ chosen = NoPool <=> passing = {}
               /\ chosen # NoPool
                    => \E k \in passing :
                         /\ chosen = candidates[k]
                         /\ \A j \in passing :
                              /\ AtLeast(CostOf(candidates[j], rideRequest),
                                         CostOf(candidates[k], rideRequest))
                              /\ j < k => ~AtLeast(CostOf(candidates[k], rideRequest),
                                                   CostOf(candidates[j], rideRequest))]_vars

\* a request is about to lock pool 2, which it chose over pool 1 although
\* pool 1 comes first, is forming and would take the request without a detour
C32_Witness ==
  \E i \in Ops :
    /\ ops[i].kind = "request" /\ ops[i].pc = "acquireLock"
    /\ ops[i].matchedPool.pool._id = 2
    /\ pools[1].status = "forming"
    /\ Available(pools[1], requests[i].passengers, requests[i].luggage)
    /\ PassesFilter(pools[1], requests[i])
    /\ pools[1].currentOccupancy.seats > ops[i].matchedPool.pool.currentOccupancy.seats

\* the save of the cancellation of operation i commits in this step
CancelCommits(i) ==
  /\ ops[i].kind = "cancel" /\ ops[i].pc = "save"
  /\ ops'[i].saved = "committed"

\* C33: when a cancellation commits and leaves a passenger entry, the
\* pool's stops are the stops it had without those of the cancelled user, in
\* their order and numbered by their positions from 0, totalDistance is the
\* sum of the distances between consecutive stops, totalDuration is
\* estimateDuration(totalDistance), and the status is what it was
C33_CancelRecomputesRoute ==
  [][\A i \in Ops :
       CancelCommits(i) /\ Len(pools'[ops[i].poolId].passengers) >= 1
         => LET before == pools[ops[i].poolId]
                after == pools'[ops[i].poolId]
                Remaining(stop) == stop.passengerId # ops[i].userId
            IN /\ \A k \in 1..Len(after.route.stops) :
                    /\ after.route.stops[k].passengerId # ops[i].userId
                    /\ after.route.stops[k].sequence = k - 1
               /\ Unsequenced(after.route.stops)
                    = Unsequenced(SelectSeq(before.route.stops, Remaining))
               /\ after.route.totalDistance = calculateRouteDistance(after.route.stops)
               /\ after.route.totalDuration = estimateDuration(after.route.totalDistance)
               /\ after.status = before.status]_vars

\* a committed cancellation left the pool with the two stops of the passenger
\* who stays, 4 km apart
C33_Witness ==
  \E i \in Ops :
    /\ ops[i].kind = "cancel" /\ ops[i].saved = "committed"
    /\ Len(pools[ops[i].poolId].passengers) = 1
    /\ pools[ops[i].poolId].route.stops = ops[i].pool.route.stops
    /\ Len(pools[ops[i].poolId].route.stops) = 2
    /\ pools[ops[i].poolId].route.totalDistance = 4
    /\ pools[ops[i].poolId].status = "matched"

\* C34: when a cancelRide returns success, every request that a passenger
\* entry removed by it referenced has the status cancelled
C34_CancelledRequestIsCancelled ==
  [][\A i \in Ops :
       (ops[i].kind = "cancel" /\ ops[i].pc = "releaseLock" /\ ops[i].success
          /\ ops'[i].result.state = "returned")
         => \A r \in ops[i].removedRequests : requests'[r].status = "cancelled"]_vars

\* C35: a join is committed only to a pool whose stored status is forming or
\* matched at the write, and a cancelled pool stays cancelled without passengers
C35_NoJoinToCancelledPool ==
  [][/\ \A i \in Ops :
          JoinCommits(i) => pools[ops[i].poolId].status \in {"forming", "matched"}
     /\ \A p \in PoolIds :
          pools[p].status = "cancelled"
            => pools'[p].status = "cancelled" /\ Len(pools'[p].passengers) = 0]_vars

\* ------------------------------------------- a failing request-status update
\* RideRequest.findByIdAndUpdate of addToExistingPool rejecting after the pool
\* was saved: the catch block turns the error into { success: false }
AddToExistingPool_UpdateRequest_Rejected(i) ==
  /\ ops[i].kind = "request" /\ ops[i].pc = "updateRequest"
  /\ ops' = [ops EXCEPT ![i].error = "update failed", ![i].pc = "releaseLock"]
  /\ UNCHANGED <<call, pools, requests, lock, joined>>

\* no more than SharedOps operations, any of whose joins may meet the failure
FaultyNext ==
  \/ SharedNext
  \/ \E i \in Ops : AddToExistingPool_UpdateRequest_Rejected(i)

SpecFaulty == Init /\ [][FaultyNext]_vars

\* C36: every ride request is referenced by a passenger entry of at most one pool
C36_RequestInOnePool ==
  \A r \in Ops : \A p \in PoolIds, q \in PoolIds :
    HasEntry(pools[p], r) /\ HasEntry(pools[q], r) => p = q

\* C37: for a route of n >= 1 stops calculateDetour returns a bestRoute of
\* n + 2 stops, the stops of the route in their order with the new pickup and
\* the new dropoff put in, and a detour of at least 0
C37_DetourOfNonEmptyRoute ==
  (call.fn = "calculateDetour" /\ call.returned /\ Len(call.args.originalRoute) >= 1)
    => LET n == Len(call.args.originalRoute)
           bestRoute == call.result.bestRoute
       IN /\ call.result.found
          /\ Len(bestRoute) = n + 2
          /\ \E pickupPos \in 0..n, dropoffPos \in 0..n :
               /\ pickupPos <= dropoffPos
               /\ [k \in 1..Len(bestRoute) |-> [type |-> bestRoute[k].type,
                                                 location |-> bestRoute[k].location]]
                    = LET inserted == InsertRoute(call.args.originalRoute,
                                                  call.args.newPickup, call.args.newDropoff,
                                                  pickupPos, dropoffPos)
                      IN [k \in 1..Len(inserted) |-> [type |-> inserted[k].type,
                                                       location |-> inserted[k].location]]
          /\ call.result.num >= 0 /\ call.result.den > 0

\* ------------------------------------------------- the supplied tolerance
\* request bodies of one passenger without luggage: a 12 km trip without the
\* field, and a 14 km trip from the same pickup with the tolerances 0 and 0.1
ToleranceInputs ==
  {[pickupLocation |-> 0, dropoffLocation |-> 12, passengers |-> 1, luggage |-> 0,
    detourTolerance |-> Undefined],
   [pickupLocation |-> 0, dropoffLocation |-> 14, passengers |-> 1, luggage |-> 0,
    detourTolerance |-> 0],
   [pickupLocation |-> 0, dropoffLocation |-> 14, passengers |-> 1, luggage |-> 0,
    detourTolerance |-> 10]}

\* Next with these bodies and no more than SharedOps operations started
ToleranceNext ==
  \/ \E i \in 1..SharedOps, userId \in Callers, body \in ToleranceInputs :
       createRideRequest(i, userId, body)
  \/ \E i \in Ops : ProcessRideRequest_FindMatch(i)
  \/ \E i \in Ops : AcquireLock(i)
  \/ \E i \in Ops : AddToExistingPool_FindById(i)
  \/ \E i \in Ops, hour \in ClockHours : AddToExistingPool_Save(i, hour)
  \/ \E i \in Ops : AddToExistingPool_UpdateRequest(i)
  \/ \E i \in Ops : ProcessRideRequest_ReleaseLock(i)
  \/ \E i \in Ops : CreateNewPool_Save(i)
  \/ \E i \in Ops : CreateNewPool_UpdateRequest(i)
  \/ \E i \in 1..SharedOps, userId \in Callers, poolId \in PoolIds \cup {UnknownPoolId} :
       /\ poolId \in PoolIds => pools[poolId] # NoPool
       /\ cancelRide(i, userId, poolId)
  \/ \E i \in Ops : CancelRide_FindById(i)
  \/ \E i \in Ops : CancelRide_Save(i)
  \/ \E i \in Ops : CancelRide_UpdateRequest(i)
  \/ \E i \in Ops : CancelRide_ReleaseLock(i)
  \/ Tick

SpecTolerance == Init /\ [][ToleranceNext]_vars

\* C38: the stored detourTolerance is the supplied one, 0 included, and the
\* user's preference only when none was supplied; a request that supplied 0
\* is not returned a join with a positive detour
C38_SuppliedToleranceIsStored ==
  \A i \in Ops :
    ops[i].kind = "request"
      => /\ requests[i].detourTolerance
              = IF ops[i].detourTolerance = Undefined
                THEN Preferences(ops[i].userId).detourTolerance
                ELSE ops[i].detourTolerance
         /\ (ops[i].detourTolerance = 0 /\ ops[i].result.state = "returned"
               /\ ~ops[i].result.isNewPool)
              => ops[i].result.detour.num = 0

\* C39: when calculateDetour returns for a route of at least one stop, every
\* stop of bestRoute has its index in bestRoute as sequence, and the stops of
\* the route passed in are as they were before the call
C39_SequenceIsIndex ==
  [][(call.fn = "calculateDetour" /\ ~call.returned /\ call'.returned
        /\ Len(call.args.originalRoute) >= 1)
       => /\ \A k \in 1..Len(call'.result.bestRoute) :
               call'.result.bestRoute[k].sequence = k - 1
          /\ call'.args.originalRoute = call.args.originalRoute]_vars

====
